---- MODULE Spec2Model ----
(***************************************************************************)
(* Model of the omnitrace tracing engine:                                  *)
(*   - the HIP host-API callback, the HIP activity callback, the per-thread *)
(*     activity queues and the OnLoad/OnUnload lifecycle                    *)
(*     (roctracer callbacks translation unit),                             *)
(*   - the python profiler hook profiler_function (libpyomnitrace.cpp).     *)
(* Spec is the roctracer side, PySpec the interpreter side.                *)
(***************************************************************************)
EXTENDS Integers, Sequences, FiniteSets, TLC

(* ------------------------------ bounds -------------------------------- *)
\* correlation ids the runtime issues (one per host API call)
MaxCorr == 2
\* activity records the runtime delivers in total
MaxRec == 2
\* records in one activity buffer
MaxBuf == 2
\* nesting depth of HIP API calls on one thread
MaxDepth == 1
\* depth of the interpreter's frame stack
MaxPyFrames == 2
\* interpreter events delivered to the profile hook on one thread
MaxPyEvents == 5
\* nested invocations of the hook while it formats arguments
MaxNested == 1
\* width in bits of the modelled unsigned timestamps (stands for uint64_t)
TsBits == 4

\* calls of OnLoad and of OnUnload by the runtime
MaxLoads == 1
MaxUnloads == 2
\* calls of the python module's initialize and finalize
MaxModCalls == 3
\* operations on the interpreter configuration (setters, init, finalize)
MaxCfgOps == 3
\* causal-chain ids issued in the runs of the host callbacks alone
MaxCid == 2
\* HSA API calls
MaxHsa == 2
MaxHsaDepth == 2
MaxHsaHost == 1
\* invocations of hip_api_callback made while one is running on the thread
MaxNestedApi == 1
\* activity records one worker takes up in the runs of the lock operations
MaxSyncRecs == 1
\* events handed to the profile hook in the runs of its filter
MaxFilterEvents == 2

TsMod == 2 ^ TsBits

\* threading::get_id(): the main thread is 0; it runs OnUnload at exit
MainThread == 0
\* the threads that call the HIP API
AppThreads == {1}
\* the runtime's threads that deliver activity buffers
Workers == {2}
\* the threads that may call the HIP and HSA API
HostThreads == {1, 3}
Threads == {MainThread} \cup HostThreads \cup Workers
\* runtime workers that deliver buffers concurrently
SyncWorkers == {2, 4}
SyncThreads == HostThreads \cup SyncWorkers
\* hip_activity_callback's function statics _indexes and _kernel_names
Statics == {<<"_indexes", 0>>, <<"_kernel_names", 0>>}
UnloadThread == MainThread

NULL == "NULL"
KernelNames == {"foo", "_Z3barv"}
Streams == {16}
QueueIds == {3}
SkewValues == {-2, -1}

HIP_OP_ID_DISPATCH == 0
HIP_OP_ID_COPY == 1
HIP_OP_ID_BARRIER == 2

Apis == {"hipLaunchKernel", "hipMemcpyAsync", "__hipPushCallConfiguration"}

VARIABLES
    \* ---- roctracer side ----
    state,              \* get_state(): PreInit, Active, Finalized
    telemetry,          \* rocm_smi state
    unload_pc,          \* position of OnUnload: none, drain, done
    use_perfetto, use_timemory, use_critical_trace, use_rocm_smi,
    clock_skew,         \* value cached by get_clock_skew()
    now,                \* comp::wall_clock::record()
    next_corr,          \* next correlation id the runtime issues
    key_data, tid_data, cid_data,     \* the correlation registry
    next_cid,           \* causal-chain id allocator
    calls,              \* per application thread: HIP API calls in flight
    pc, cur,            \* per application thread: position in hip_api_callback
    hip_activity_callbacks,           \* per thread: queue of closures
    hip_activity_mutex,               \* per thread: the holders of the queue's mutex
    wpc, wleft, wpend,  \* per worker: position in hip_activity_callback
    ndelivered,         \* records the runtime has handed over in buffers
    nrec, nclosure,     \* records processed, closures appended
    host_events, device_events, critical_trace, executed, records_seen,
    raised,             \* correlation ids whose EXIT callback threw
    \* ---- interpreter side (per python thread) ----
    config,             \* get_config(): the thread's configuration
    disable,            \* profiler_function's thread_local _disable
    omnitrace_path,     \* profiler_function's static _omnitrace_path
    frames,             \* the interpreter's frame stack
    in_c,               \* a C function called from the top frame is running
    hook_on,            \* the interpreter still calls the profile hook
    pf_pc, pf_pending,  \* position in profiler_function, the event being handled
    region_events,      \* omnitrace_push_region / omnitrace_pop_region calls
    labels,             \* profiler_function's thread_local _labels
    last_exit,          \* the path the last invocation left by
    nevents, nnested,   \* events delivered, nested invocations
    ev_log,             \* the events the interpreter has delivered to the hook
    \* ---- OnLoad / OnUnload and the python module's lifecycle ----
    n_onload, onload_ret,             \* calls of OnLoad, what the last one returned
    onload_tooling,                   \* OMNITRACE_INIT_TOOLING as the last OnLoad read it
    sampling_stack,     \* pthread_gotcha's enable-sampling-on-child-threads stack
    n_init_tooling,     \* calls of omnitrace_init_tooling_hidden
    skew_computed,      \* get_clock_skew() has cached its value
    setup_routines, shutdown_routines, \* comp::roctracer's registered closures
    setup_log,          \* outcome of each executed setup closure
    n_unload, n_shutdown, n_finalize_hidden, \* OnUnload's calls
    unload_log,         \* per OnUnload call: had OnLoad run, had finalize run
    is_initialized, is_finalized,     \* the module's static flags
    n_set_mpi, n_init, n_finalize,    \* calls of omnitrace_set_mpi/_init/_finalize
    command_line,       \* value of OMNITRACE_COMMAND_LINE
    mod_log,            \* the module calls made, with their outcome
    \* ---- get_config(): the objects behind the threads' configurations ----
    cfg_obj,            \* per thread: the config object its _tl_instance points to
    cfg_count,          \* get_config()'s static atomic _count
    cfg_pc,             \* per thread: position in the first access
    cfg_own,            \* per thread: the fields it has assigned itself
    cfg_actor,          \* the thread that made the last configuration step
    cfg_ops,            \* configuration operations made
    cfg_last,           \* the regex-set assignment the last operation made, if any
    \* ---- the host callbacks, continued ----
    drain_entry,        \* per application thread: the closures queued when the
                        \* running invocation of hip_api_callback was entered
    n_nested_api,       \* invocations of hip_api_callback made while one was running
    begin_timestamp,    \* hsa_api_callback's static thread_local begin_timestamp
    hsa_calls,          \* per application thread: HSA API calls in flight
    hsa_events,         \* the spans hsa_api_callback emitted to perfetto
    hsa_tasks,          \* the tasks hsa_api_callback handed to the task group
    n_hsa,              \* invocations of hsa_api_callback
    \* ---- the callbacks' use of the mutexes and of the function statics ----
    sy_script,          \* per thread: the lock operations and accesses left in
                        \* the invocation it is executing
    sy_held,            \* per thread: the mutexes it holds
    sy_calls,           \* per application thread: phases of its host call done
    sy_recs,            \* per worker: activity records taken up
    sy_users,           \* per function static: the threads that accessed it
    \* ---- the timing bundles of hip_api_callback ----
    hip_data,           \* per thread: the correlation ids in its bundle map
    bundle_stops        \* the stop-and-erase operations made on the bundle maps

hipvars == <<state, telemetry, unload_pc, use_perfetto, use_timemory,
             use_critical_trace, use_rocm_smi, clock_skew, now, next_corr,
             key_data, tid_data, cid_data, next_cid, calls, pc, cur,
             hip_activity_callbacks, hip_activity_mutex, wpc, wleft, wpend,
             ndelivered, nrec, nclosure, host_events, device_events, critical_trace,
             executed, records_seen, raised>>

pyvars == <<config, disable, omnitrace_path, frames, in_c, hook_on, pf_pc,
            pf_pending, region_events, labels, last_exit, nevents, nnested, ev_log>>

loadvars == <<n_onload, onload_ret, onload_tooling, sampling_stack, n_init_tooling, skew_computed,
              setup_routines, shutdown_routines, setup_log>>

unloadvars == <<n_unload, n_shutdown, n_finalize_hidden, unload_log>>

modvars == <<is_initialized, is_finalized, n_set_mpi, n_init, n_finalize,
             command_line, mod_log>>

lifevars == <<loadvars, unloadvars, modvars>>

cfgvars == <<cfg_obj, cfg_count, cfg_pc, cfg_own, cfg_actor, cfg_ops, cfg_last>>

hostvars == <<n_nested_api, begin_timestamp, hsa_calls, hsa_events, hsa_tasks, n_hsa>>

syncvars == <<sy_script, sy_held, sy_calls, sy_recs, sy_users>>

bundlevars == <<hip_data, bundle_stops>>

extvars == <<drain_entry, hostvars, syncvars, bundlevars>>

vars == <<hipvars, pyvars, lifevars, cfgvars, extvars>>

(* ----------------------------- helpers -------------------------------- *)
EmptyMap == [x \in {} |-> 0]

\* an insert that replaces the value of a present key
EmplaceOverwrite(m, k, v) == [x \in DOMAIN m \cup {k} |-> IF x = k THEN v ELSE m[x]]

\* std::unordered_map::emplace: inserts only when the key is absent
Emplace(m, k, v) == IF k \in DOMAIN m THEN m ELSE m @@ (k :> v)

Last(s) == s[Len(s)]
ButLast(s) == SubSeq(s, 1, Len(s) - 1)

\* a conversion that forgets the skew
AddSkewNone(ns, skew) == ns % TsMod

\* unsigned addition of a signed skew, modulo the word size
AddSkew(ns, skew) == (ns + skew) % TsMod

\* get_clock_skew(): the cached value when enabled
get_clock_skew == clock_skew

\* tim::demangle: a mangled symbol becomes its signature, anything else is kept
demangle(n) == IF n = "_Z3barv" THEN "bar()" ELSE n

\* roctracer_op_string for the HIP_OPS domain
roctracer_op_string(op) ==
    CASE op = HIP_OP_ID_DISPATCH -> "DISPATCH"
      [] op = HIP_OP_ID_COPY     -> "COPY"
      [] op = HIP_OP_ID_BARRIER  -> "BARRIER"
      [] OTHER                   -> NULL

\* _op_id_names.at(record->op)
op_id_names(op) ==
    CASE op = HIP_OP_ID_DISPATCH -> "DISPATCH"
      [] op = HIP_OP_ID_COPY     -> "COPY"
      [] OTHER                   -> "BARRIER"

\* the API ids hip_api_callback returns on before any work
FilteredApi(api) == api = "__hipPushCallConfiguration"

\* OMNITRACE_HIP_API_QUEUE_CASE: the APIs that carry a stream
QueueOf(api, stream) ==
    IF api \in {"hipLaunchKernel", "hipMemcpyAsync"} THEN stream ELSE 0

\* the kernel-launch APIs resolve a kernel name (which may be null)
KernelNameOf(api, kname) == IF api = "hipLaunchKernel" THEN kname ELSE NULL

\* get_state() != State::Active || !runtime_enabled
Inactive == state # "Active"

\* create_cpu_cid_entry(): a fresh cid, the enclosing call's cid as parent,
\* the nesting depth
create_cpu_cid_entry(t) ==
    LET open == SelectSeq(calls[t], LAMBDA c : c.cid # 0)
    IN  <<next_cid, IF open = <<>> THEN 0 ELSE Last(open).cid, Len(open)>>

(* ------------------------------ Init ---------------------------------- *)
HipInit ==
    /\ state = "PreInit"
    /\ telemetry = "PreInit"
    /\ unload_pc = "none"
    /\ use_perfetto \in BOOLEAN
    /\ use_timemory \in BOOLEAN
    /\ use_critical_trace \in BOOLEAN
    /\ use_rocm_smi = FALSE
    /\ clock_skew \in SkewValues
    /\ now = 1
    /\ next_corr = 1
    /\ key_data = EmptyMap
    /\ tid_data = EmptyMap
    /\ cid_data = EmptyMap
    /\ next_cid = 1
    /\ calls = [t \in HostThreads |-> <<>>]
    /\ pc = [t \in HostThreads |-> "idle"]
    /\ cur = [t \in HostThreads |-> [phase |-> "NONE", corr |-> 0, ts |-> 0, idx |-> 0]]
    /\ hip_activity_callbacks = [t \in Threads |-> <<>>]
    /\ hip_activity_mutex = [t \in Threads |-> {}]
    /\ wpc = [w \in Workers |-> "idle"]
    /\ wleft = [w \in Workers |-> 0]
    /\ wpend = [w \in Workers |-> [tid |-> 0, name |-> NULL, beg |-> 0, end |-> 0, rec |-> 0]]
    /\ ndelivered = 0
    /\ nrec = 0
    /\ nclosure = 0
    /\ host_events = <<>>
    /\ device_events = <<>>
    /\ critical_trace = <<>>
    /\ executed = <<>>
    /\ records_seen = <<>>
    /\ raised = {}
    /\ drain_entry = [t \in HostThreads |-> {}]
    /\ n_nested_api = 0
    /\ begin_timestamp = [t \in HostThreads |-> 0]
    /\ hsa_calls = [t \in HostThreads |-> <<>>]
    /\ hsa_events = <<>>
    /\ hsa_tasks = <<>>
    /\ n_hsa = 0
    /\ sy_script = [t \in SyncThreads |-> <<>>]
    /\ sy_held = [t \in SyncThreads |-> {}]
    /\ sy_calls = [t \in HostThreads |-> 0]
    /\ sy_recs = [w \in SyncWorkers |-> 0]
    /\ sy_users = [o \in Statics |-> {}]
    /\ hip_data = [t \in Threads |-> {}]
    /\ bundle_stops = <<>>

(* ------------------------- hip_api_callback --------------------------- *)
\* the ids of the closures in a thread's queue
QueuedIds(t) == {hip_activity_callbacks[t][i].id : i \in 1..Len(hip_activity_callbacks[t])}

\* an EXIT branch that reads the causal triple before draining the queue
ExitEntryNoDrain(t) == "exit_tail"

\* where the EXIT branch starts: its first statement is the drain of the queue
ExitEntry(t) == "exec_lock"

\* the work of the ENTER branch before the drain: the registry inserts, the
\* causal-chain triple, the BEGIN events
EnterWork(t, api, kname, stream, corr) ==
    LET ts    == now
        queue == QueueOf(api, stream)
        name  == KernelNameOf(api, kname)
        reg   == name # NULL /\ (use_perfetto \/ use_timemory \/ use_rocm_smi)
        triple == create_cpu_cid_entry(t)
        crit  == use_critical_trace \/ use_rocm_smi
    IN  /\ now' = now + 1
        /\ key_data' = IF reg THEN Emplace(key_data, corr, name) ELSE key_data
        /\ tid_data' = IF reg THEN Emplace(tid_data, corr, t) ELSE tid_data
        /\ next_cid' = next_cid + 1
        /\ host_events' =
             IF use_perfetto
             THEN Append(host_events,
                    [kind |-> "BEGIN", thr |-> t, name |-> api, ts |-> ts,
                     cid |-> triple[1], pcid |-> triple[2], tid |-> t,
                     depth |-> triple[3], corr |-> corr])
             ELSE host_events
        /\ critical_trace' =
             IF crit
             THEN Append(critical_trace,
                    [dev |-> "CPU", phase |-> "BEGIN", tid |-> t,
                     cid |-> triple[1], corr |-> corr, pcid |-> triple[2],
                     beg |-> ts, end |-> 0, queue |-> queue, name |-> api,
                     depth |-> triple[3], rec |-> 0])
             ELSE critical_trace
        /\ cid_data' = Emplace(cid_data, corr, triple)
        /\ hip_data' =
             IF ~use_timemory THEN hip_data
             ELSE IF corr \in hip_data[t]
                  THEN [hip_data EXCEPT ![t] = @ \ {corr}]
                  ELSE [hip_data EXCEPT ![t] = @ \cup {corr}]
        /\ bundle_stops' =
             IF use_timemory /\ corr \in hip_data[t]
             THEN Append(bundle_stops,
                    [map |-> t, corr |-> corr, by |-> t, phase |-> "ENTER",
                     found |-> TRUE])
             ELSE bundle_stops

\* ENTER phase up to the drain, for the correlation id the runtime hands over
HipApiEnterCorr(t, api, kname, stream, corr) ==
    /\ pc[t] = "idle"
    /\ Len(calls[t]) < MaxDepth
    /\ (api = "hipLaunchKernel" <=> kname # NULL)
    /\ LET skip == Inactive \/ FilteredApi(api)
       IN  /\ calls' = [calls EXCEPT ![t] = Append(@,
                    [corr |-> corr, api |-> api, stream |-> stream,
                     cid |-> IF skip THEN 0 ELSE create_cpu_cid_entry(t)[1]])]
           /\ IF skip
              THEN UNCHANGED <<now, key_data, tid_data, cid_data, next_cid, pc, cur,
                               host_events, critical_trace, drain_entry, bundlevars>>
              ELSE /\ EnterWork(t, api, kname, stream, corr)
                   /\ drain_entry' = [drain_entry EXCEPT ![t] = QueuedIds(t)]
                   /\ pc' = [pc EXCEPT ![t] = "exec_lock"]
                   /\ cur' = [cur EXCEPT ![t] =
                                [phase |-> "ENTER", corr |-> corr, ts |-> now, idx |-> 1]]
    /\ UNCHANGED <<state, telemetry, unload_pc, use_perfetto, use_timemory,
                   use_critical_trace, use_rocm_smi, clock_skew,
                   hip_activity_callbacks, hip_activity_mutex, wpc, wleft, wpend,
                   ndelivered, nrec, nclosure, device_events, executed, records_seen, raised>>
    /\ UNCHANGED <<pyvars, lifevars, cfgvars, hostvars, syncvars>>

\* the ENTER invocation of a host call: the runtime issues a fresh correlation id
HipApiEnter(t, api, kname, stream) ==
    /\ next_corr <= MaxCorr
    /\ HipApiEnterCorr(t, api, kname, stream, next_corr)
    /\ next_corr' = next_corr + 1

\* EXIT phase up to the drain
HipApiExit(t) ==
    /\ pc[t] = "idle"
    /\ calls[t] # <<>>
    /\ LET call == Last(calls[t])
           skip == Inactive \/ FilteredApi(call.api)
       IN  IF skip
           THEN /\ calls' = [calls EXCEPT ![t] = ButLast(@)]
                /\ UNCHANGED <<now, pc, cur, drain_entry>>
           ELSE /\ now' = now + 1
                /\ pc' = [pc EXCEPT ![t] = ExitEntry(t)]
                /\ drain_entry' = [drain_entry EXCEPT ![t] = QueuedIds(t)]
                /\ cur' = [cur EXCEPT ![t] =
                             [phase |-> "EXIT", corr |-> call.corr, ts |-> now, idx |-> 1]]
                /\ UNCHANGED calls
    /\ UNCHANGED <<state, telemetry, unload_pc, use_perfetto, use_timemory,
                   use_critical_trace, use_rocm_smi, clock_skew, next_corr,
                   key_data, tid_data, cid_data, next_cid,
                   hip_activity_callbacks, hip_activity_mutex, wpc, wleft, wpend,
                   ndelivered, nrec, nclosure, host_events, device_events, critical_trace,
                   executed, records_seen, raised>>
    /\ UNCHANGED <<pyvars, lifevars, cfgvars, hostvars, syncvars, bundlevars>>

\* the threads whose maps the loop of the EXIT branch visits before it comes
\* to a map that holds corr: for (i = 0; i < max_supported_threads; ++i)
VisitedBeforeHit(corr) ==
    {i \in Threads : \A j \in Threads : corr \in hip_data[j] => i < j}

\* the outcomes of _stop(_tid) and of the loop over every thread's map. _stop
\* compares the iterator found in thread i's map with end() of the calling
\* thread's map: for i # t and a map without corr these are the end iterators
\* of two containers, whose comparison is undefined: they compare equal (no
\* hit) or unequal (stop and erase through the end iterator of map i)
StopOutcomes(t, corr) ==
    IF corr \in hip_data[t]
    THEN {[map |-> t, hit |-> TRUE, found |-> TRUE]}
    ELSE {[map |-> i, hit |-> TRUE, found |-> TRUE] :
             i \in {j \in Threads : corr \in hip_data[j]
                                     /\ \A k \in Threads :
                                           corr \in hip_data[k] => j <= k}}
         \cup {[map |-> i, hit |-> TRUE, found |-> FALSE] :
                  i \in VisitedBeforeHit(corr) \ {t}}
         \cup {[map |-> t, hit |-> FALSE, found |-> FALSE] :
                  i \in {j \in {t} : \A k \in Threads : corr \notin hip_data[k]}}

\* itr->second.stop(); _data->erase(itr);
StopBundle(t, corr, o) ==
    /\ hip_data' = IF o.found THEN [hip_data EXCEPT ![o.map] = @ \ {corr}]
                   ELSE hip_data
    /\ bundle_stops' =
         IF o.hit
         THEN Append(bundle_stops,
                [map |-> o.map, corr |-> corr, by |-> t, phase |-> "EXIT",
                 found |-> o.found])
         ELSE bundle_stops

\* EXIT phase after the drain: the causal triple is looked up with at(), which
\* throws for an unknown correlation id; then the END events
HipApiExitTail(t) ==
    /\ pc[t] = "exit_tail"
    /\ LET corr == cur[t].corr
           ts   == cur[t].ts
           call == Last(calls[t])
           crit == use_critical_trace \/ use_rocm_smi
       IN  IF corr \notin DOMAIN cid_data
           THEN /\ raised' = raised \cup {corr}
                /\ UNCHANGED <<host_events, critical_trace, bundlevars>>
           ELSE /\ host_events' =
                     IF use_perfetto
                     THEN Append(host_events,
                            [kind |-> "END", thr |-> t, name |-> call.api, ts |-> ts,
                             cid |-> cid_data[corr][1], pcid |-> cid_data[corr][2],
                             tid |-> t, depth |-> cid_data[corr][3], corr |-> corr])
                     ELSE host_events
                /\ critical_trace' =
                     IF crit
                     THEN Append(critical_trace,
                            [dev |-> "CPU", phase |-> "END", tid |-> t,
                             cid |-> cid_data[corr][1], corr |-> corr,
                             pcid |-> cid_data[corr][2], beg |-> ts, end |-> ts,
                             queue |-> QueueOf(call.api, call.stream),
                             name |-> call.api, depth |-> cid_data[corr][3],
                             rec |-> 0])
                     ELSE critical_trace
                /\ IF use_timemory
                   THEN \E o \in StopOutcomes(t, corr) : StopBundle(t, corr, o)
                   ELSE UNCHANGED bundlevars
                /\ UNCHANGED raised
    /\ calls' = [calls EXCEPT ![t] = ButLast(@)]
    /\ pc' = [pc EXCEPT ![t] = "idle"]
    /\ drain_entry' = [drain_entry EXCEPT ![t] = {}]
    /\ UNCHANGED <<state, telemetry, unload_pc, use_perfetto, use_timemory,
                   use_critical_trace, use_rocm_smi, clock_skew, now, next_corr,
                   key_data, tid_data, cid_data, next_cid, cur,
                   hip_activity_callbacks, hip_activity_mutex, wpc, wleft, wpend,
                   ndelivered, nrec, nclosure, device_events, executed, records_seen>>
    /\ UNCHANGED <<pyvars, lifevars, cfgvars, hostvars, syncvars>>

(* -------------------- hip_exec_activity_callbacks --------------------- *)
\* the mutex holders once auto_lock_t _lk is constructed: the lock lives to
\* the end of the function, so it is held while the closures run
\* a drain that releases the mutex before the loop
HeldAfterLockNone(by) == {}

HeldAfterLock(by) == {by}

\* the order in which the range-for visits the queue
\* a loop that visits the queue from the back
DrainOrderReversed(q) == [i \in 1..Len(q) |-> q[Len(q) + 1 - i]]

DrainOrder(q) == q

\* running one closure: the timemory bundle stores end - begin
RunClosure(c, tid, by) ==
    [id |-> c.id, name |-> c.name, value |-> (c.end - c.beg) % TsMod,
     rec |-> c.rec, queue |-> tid, by |-> by,
     locked |-> by \in hip_activity_mutex[tid]]

\* what the loop does with the closures of a queue: each one is invoked
RunAll(q, tid, by) == [i \in 1..Len(q) |-> RunClosure(DrainOrder(q)[i], tid, by)]

HipExecLock(t) ==
    /\ pc[t] = "exec_lock"
    /\ hip_activity_mutex[t] = {}
    /\ hip_activity_mutex' = [hip_activity_mutex EXCEPT ![t] = HeldAfterLock(t)]
    /\ pc' = [pc EXCEPT ![t] = "exec_run"]
    /\ cur' = [cur EXCEPT ![t].idx = 1]
    /\ UNCHANGED <<state, telemetry, unload_pc, use_perfetto, use_timemory,
                   use_critical_trace, use_rocm_smi, clock_skew, now, next_corr,
                   key_data, tid_data, cid_data, next_cid, calls,
                   hip_activity_callbacks, wpc, wleft, wpend,
                   ndelivered, nrec, nclosure, host_events, device_events,
                   critical_trace, executed, records_seen, raised>>
    /\ UNCHANGED <<pyvars, lifevars, cfgvars, extvars>>

\* one iteration of the loop
HipExecRun(t) ==
    /\ pc[t] = "exec_run"
    /\ cur[t].idx <= Len(hip_activity_callbacks[t])
    /\ executed' = Append(executed,
                          RunAll(hip_activity_callbacks[t], t, t)[cur[t].idx])
    /\ cur' = [cur EXCEPT ![t].idx = @ + 1]
    /\ UNCHANGED <<state, telemetry, unload_pc, use_perfetto, use_timemory,
                   use_critical_trace, use_rocm_smi, clock_skew, now, next_corr,
                   key_data, tid_data, cid_data, next_cid, calls, pc,
                   hip_activity_callbacks, hip_activity_mutex, wpc, wleft, wpend,
                   ndelivered, nrec, nclosure, host_events, device_events,
                   critical_trace, records_seen, raised>>
    /\ UNCHANGED <<pyvars, lifevars, cfgvars, extvars>>

\* a drain that leaves the executed closures in the queue
ClearQueueKept(q) == q

\* _async_ops->clear()
ClearQueue(q) == <<>>

\* _async_ops->clear() and the release of the lock at the end of the scope
HipExecClear(t) ==
    /\ pc[t] = "exec_run"
    /\ cur[t].idx > Len(hip_activity_callbacks[t])
    /\ hip_activity_callbacks' =
          [hip_activity_callbacks EXCEPT ![t] = ClearQueue(@)]
    /\ hip_activity_mutex' = [hip_activity_mutex EXCEPT ![t] = {}]
    /\ pc' = [pc EXCEPT ![t] = IF cur[t].phase = "ENTER" THEN "idle" ELSE "exit_tail"]
    /\ drain_entry' = [drain_entry EXCEPT ![t] = IF cur[t].phase = "ENTER" THEN {} ELSE @]
    /\ UNCHANGED <<state, telemetry, unload_pc, use_perfetto, use_timemory,
                   use_critical_trace, use_rocm_smi, clock_skew, now, next_corr,
                   key_data, tid_data, cid_data, next_cid, calls, cur,
                   wpc, wleft, wpend, ndelivered, nrec, nclosure, host_events,
                   device_events, critical_trace, executed, records_seen, raised>>
    /\ UNCHANGED <<pyvars, lifevars, cfgvars, hostvars, syncvars, bundlevars>>

(* ----------------------- hip_activity_callback ------------------------ *)
Domains == {"HIP_OPS", "HIP_API"}
Ops == {HIP_OP_ID_DISPATCH, HIP_OP_ID_COPY, HIP_OP_ID_BARRIER + 1}
TimePairs == {<<1, 3>>}

\* the records the runtime may hand over
Records ==
    {[domain |-> d, op |-> o, begin_ns |-> bp[1], end_ns |-> bp[2],
      correlation_id |-> c, device_id |-> 0, queue_id |-> q] :
        d \in Domains, o \in Ops, bp \in TimePairs, c \in 1..MaxCorr, q \in QueueIds}

\* entry of the callback: the state check, then the loop over [begin, end)
HipActivityCallback(w, n) ==
    /\ wpc[w] = "idle"
    /\ ndelivered + n <= MaxRec
    /\ IF Inactive
       THEN UNCHANGED <<wpc, wleft, ndelivered>>
       ELSE /\ wleft' = [wleft EXCEPT ![w] = n]
            /\ wpc' = [wpc EXCEPT ![w] = IF n = 0 THEN "idle" ELSE "loop"]
            /\ ndelivered' = ndelivered + n
    /\ UNCHANGED <<state, telemetry, unload_pc, use_perfetto, use_timemory,
                   use_critical_trace, use_rocm_smi, clock_skew, now, next_corr,
                   key_data, tid_data, cid_data, next_cid, calls, pc, cur,
                   hip_activity_callbacks, hip_activity_mutex, wpend,
                   nrec, nclosure, host_events, device_events, critical_trace,
                   executed, records_seen, raised>>
    /\ UNCHANGED <<pyvars, lifevars, cfgvars, extvars>>

\* the registry lookup under the key mutex: found, origin thread, stored name
LookupFound(corr) == corr \in DOMAIN tid_data
LookupTid(corr) == IF LookupFound(corr) THEN tid_data[corr] ELSE 0
LookupName(corr) ==
    IF LookupFound(corr) /\ corr \in DOMAIN key_data THEN key_data[corr] ELSE NULL

\* _name after the fallback to the op string
\* a fallback that ignores the registry
ActivityNameOpOnly(corr, op_name) == op_name

ActivityName(corr, op_name) ==
    IF LookupName(corr) = NULL THEN op_name ELSE LookupName(corr)

\* the name handed to TRACE_EVENT_BEGIN: _kernel_names.at(_name)
SpanName(name) == demangle(name)

\* the thread the TRACE_EVENT_BEGIN/END pair is emitted on
\* emission on the origin thread of the record
EmitThreadOrigin(w, tid) == tid

EmitThread(w, tid) == w

\* the "queue" annotation of the device event
SpanQueue(r, corr) == r.queue_id

\* whether a closure is queued for the record
QueuesClosure(found, name) == found /\ name # NULL /\ use_timemory

\* an iteration that leaves the record pointer where it is
roctracer_next_record_skipped(left) == left

\* roctracer_next_record(record, &record), run by the destructor of _next_dtor
\* at the end of every iteration: one record less is left in the buffer
roctracer_next_record(left) == left - 1

\* the loop condition after the advance
AfterRecord(w) == IF roctracer_next_record(wleft[w]) = 0 THEN "idle" ELSE "loop"

\* one iteration of the loop, up to the append to the origin thread's queue
HipActivityRecord(w, r, op_name) ==
    /\ wpc[w] = "loop"
    /\ wleft[w] > 0
    /\ op_name \in {roctracer_op_string(r.op), NULL}
    /\ LET rec   == nrec + 1
           corr  == r.correlation_id
           beg   == AddSkew(r.begin_ns, get_clock_skew)
           end   == AddSkew(r.end_ns, get_clock_skew)
           found == LookupFound(corr)
           tid   == LookupTid(corr)
           name  == ActivityName(corr, op_name)
           skip  == \/ r.domain # "HIP_OPS"
                    \/ r.op > HIP_OP_ID_BARRIER
                    \/ name = NULL
           crit  == (use_critical_trace \/ use_rocm_smi) /\ corr \in DOMAIN cid_data
           cid   == IF crit THEN cid_data[corr] ELSE <<0, 0, 0>>
           defer == ~skip /\ QueuesClosure(found, name)
       IN  /\ nrec' = rec
           /\ records_seen' = Append(records_seen,
                   IF skip
                   THEN [rec |-> rec, corr |-> 0, op |-> 0, found |-> FALSE,
                         by |-> w, skipped |-> TRUE, begin_ns |-> 0, end_ns |-> 0,
                         queue_id |-> 0]
                   ELSE [rec |-> rec, corr |-> corr, op |-> r.op, found |-> found,
                         by |-> w, skipped |-> FALSE, begin_ns |-> r.begin_ns,
                         end_ns |-> r.end_ns, queue_id |-> r.queue_id])
           /\ device_events' =
                IF ~skip /\ use_perfetto
                THEN Append(device_events,
                       [thr |-> EmitThread(w, tid), name |-> SpanName(name),
                        beg |-> beg, end |-> end, cid |-> cid[1], corr |-> corr,
                        device |-> r.device_id, queue |-> SpanQueue(r, corr),
                        op |-> op_id_names(r.op), rec |-> rec])
                ELSE device_events
           /\ critical_trace' =
                IF ~skip /\ crit
                THEN Append(critical_trace,
                       [dev |-> "GPU", phase |-> "DELTA", tid |-> tid,
                        cid |-> cid[1], corr |-> corr, pcid |-> cid[1],
                        beg |-> beg, end |-> end, queue |-> r.queue_id,
                        name |-> name, depth |-> cid[3] + 1, rec |-> rec])
                ELSE critical_trace
           /\ IF defer
              THEN /\ wpend' = [wpend EXCEPT ![w] =
                         [tid |-> tid, name |-> name, beg |-> beg, end |-> end,
                          rec |-> rec]]
                   /\ wpc' = [wpc EXCEPT ![w] = "append"]
                   /\ UNCHANGED wleft
              ELSE /\ wleft' = [wleft EXCEPT ![w] = roctracer_next_record(@)]
                   /\ wpc' = [wpc EXCEPT ![w] = AfterRecord(w)]
                   /\ UNCHANGED wpend
    /\ UNCHANGED <<state, telemetry, unload_pc, use_perfetto, use_timemory,
                   use_critical_trace, use_rocm_smi, clock_skew, now, next_corr,
                   key_data, tid_data, cid_data, next_cid, calls, pc, cur,
                   hip_activity_callbacks, hip_activity_mutex,
                   ndelivered, nclosure, host_events, executed, raised>>
    /\ UNCHANGED <<pyvars, lifevars, cfgvars, extvars>>

\* _async_ops->emplace_back(std::move(_func))
\* an append that loses the closure
AppendClosureDropped(q, c) == q

AppendClosure(q, c) == Append(q, c)

\* the append to the origin thread's queue, under that queue's mutex
HipActivityAppend(w) ==
    /\ wpc[w] = "append"
    /\ hip_activity_mutex[wpend[w].tid] = {}
    /\ hip_activity_callbacks' =
          [hip_activity_callbacks EXCEPT ![wpend[w].tid] =
              AppendClosure(@, [id |-> nclosure + 1, name |-> wpend[w].name,
                                beg |-> wpend[w].beg, end |-> wpend[w].end,
                                rec |-> wpend[w].rec])]
    /\ nclosure' = nclosure + 1
    /\ wleft' = [wleft EXCEPT ![w] = roctracer_next_record(@)]
    /\ wpc' = [wpc EXCEPT ![w] = AfterRecord(w)]
    /\ UNCHANGED <<state, telemetry, unload_pc, use_perfetto, use_timemory,
                   use_critical_trace, use_rocm_smi, clock_skew, now, next_corr,
                   key_data, tid_data, cid_data, next_cid, calls, pc, cur,
                   hip_activity_mutex, wpend, ndelivered, nrec, host_events,
                   device_events, critical_trace, executed, records_seen, raised>>
    /\ UNCHANGED <<pyvars, lifevars, cfgvars, extvars>>

(* ------------------------- OnLoad / OnUnload -------------------------- *)
\* omnitrace_init_tooling_hidden(): the tracer becomes Active
omnitrace_init_tooling_hidden(s) == IF s = "PreInit" THEN "Active" ELSE s

\* a load that ignores OMNITRACE_INIT_TOOLING
OnLoadNeverEarly(init_tooling) == FALSE

\* if(!tim::get_env("OMNITRACE_INIT_TOOLING", true)) return true;
OnLoadReturnsEarly(init_tooling) == ~init_tooling

\* a setup closure without its try/catch
hsa_setup_uncaught(reg_fails) == IF reg_fails THEN "thrown" ELSE "enabled"

\* the "hsa" setup closure: an exception of the runtime registration is caught
\* and printed inside the closure
hsa_setup(reg_fails) == IF reg_fails THEN "reported" ELSE "enabled"

\* comp::roctracer::add_setup / add_shutdown: the closure is registered under
\* its name
add_routine(routines, name) == Append(routines, name)

\* comp::roctracer::setup(): every registered setup closure is executed
roctracer_setup(routines, reg_fails) ==
    [i \in 1..Len(routines) |-> hsa_setup(reg_fails)]

OnLoad(init_tooling, configured, reg_fails) ==
    /\ unload_pc = "none"
    /\ n_onload < MaxLoads
    /\ n_onload' = n_onload + 1
    /\ onload_tooling' = init_tooling
    /\ IF OnLoadReturnsEarly(init_tooling)
       THEN /\ onload_ret' = "true"
            /\ UNCHANGED <<state, telemetry, sampling_stack, n_init_tooling,
                           skew_computed, setup_routines, shutdown_routines, setup_log>>
       ELSE LET init == ~configured /\ state = "PreInit"
                ran  == roctracer_setup(add_routine(setup_routines, "hsa"), reg_fails)
                thrown == \E i \in DOMAIN ran : ran[i] = "thrown"
            IN  /\ state' = IF init THEN omnitrace_init_tooling_hidden(state) ELSE state
                /\ n_init_tooling' = IF init THEN n_init_tooling + 1 ELSE n_init_tooling
                /\ skew_computed' = TRUE
                /\ setup_routines' = add_routine(setup_routines, "hsa")
                /\ shutdown_routines' = add_routine(shutdown_routines, "hsa")
                /\ telemetry' = "Active"
                /\ setup_log' = setup_log \o ran
                \* push_enable_sampling_on_child_threads(false) ... pop
                /\ sampling_stack' = IF thrown THEN Append(sampling_stack, FALSE)
                                     ELSE sampling_stack
                /\ onload_ret' = IF thrown THEN "exception" ELSE "true"
    /\ UNCHANGED <<unload_pc, use_perfetto, use_timemory,
                   use_critical_trace, use_rocm_smi, clock_skew, now, next_corr,
                   key_data, tid_data, cid_data, next_cid, calls, pc, cur,
                   hip_activity_callbacks, hip_activity_mutex, wpc, wleft, wpend,
                   ndelivered, nrec, nclosure, host_events, device_events,
                   critical_trace, executed, records_seen, raised>>
    /\ UNCHANGED <<pyvars, unloadvars, modvars, cfgvars, extvars>>

\* OnUnload up to the finalizer's drain: the telemetry is Finalized,
\* comp::roctracer::shutdown() and omnitrace_finalize_hidden() are called; the
\* finalizer leaves the tracer Finalized
OnUnload ==
    /\ unload_pc \in {"none", "done"}
    /\ n_unload < MaxUnloads
    /\ n_unload' = n_unload + 1
    /\ unload_log' = Append(unload_log, [loaded |-> n_onload > 0,
                                          finalized |-> is_finalized])
    /\ telemetry' = "Finalized"
    /\ n_shutdown' = n_shutdown + 1
    /\ n_finalize_hidden' = n_finalize_hidden + 1
    /\ state' = "Finalized"
    /\ unload_pc' = "drain"
    /\ UNCHANGED <<use_perfetto, use_timemory,
                   use_critical_trace, use_rocm_smi, clock_skew, now, next_corr,
                   key_data, tid_data, cid_data, next_cid, calls, pc, cur,
                   hip_activity_callbacks, hip_activity_mutex, wpc, wleft, wpend,
                   ndelivered, nrec, nclosure, host_events, device_events,
                   critical_trace, executed, records_seen, raised>>
    /\ UNCHANGED <<pyvars, loadvars, modvars, cfgvars, extvars>>

\* the closures of the threads of set S, drained thread by thread
RECURSIVE DrainThreads(_)
DrainThreads(S) ==
    IF S = {} THEN <<>>
    ELSE LET t == CHOOSE x \in S : \A y \in S : x <= y
         IN  [i \in 1..Len(hip_activity_callbacks[t]) |->
                 [RunAll(hip_activity_callbacks[t], t, UnloadThread)[i]
                     EXCEPT !.locked = UnloadThread \in HeldAfterLock(UnloadThread)]]
             \o DrainThreads(S \ {t})

\* the finalizer's global drain: hip_exec_activity_callbacks(i) for every
\* thread i, once the runtime's workers have returned from the callback
OnUnloadDrain ==
    /\ unload_pc = "drain"
    /\ \A w \in Workers : wpc[w] = "idle"
    /\ \A t \in Threads : hip_activity_mutex[t] = {}
    /\ executed' = executed \o DrainThreads(Threads)
    /\ hip_activity_callbacks' =
          [t \in Threads |-> ClearQueue(hip_activity_callbacks[t])]
    /\ unload_pc' = "done"
    /\ UNCHANGED <<state, telemetry, use_perfetto, use_timemory,
                   use_critical_trace, use_rocm_smi, clock_skew, now, next_corr,
                   key_data, tid_data, cid_data, next_cid, calls, pc, cur,
                   hip_activity_mutex, wpc, wleft, wpend,
                   ndelivered, nrec, nclosure, host_events, device_events,
                   critical_trace, records_seen, raised>>
    /\ UNCHANGED <<pyvars, lifevars, cfgvars, extvars>>


(* ========================= interpreter side =========================== *)
PyThreads == {0}
\* the threads that may access get_config()
CfgThreads == {0, 1}
OmniPath == "/opt/omnitrace"

\* the code objects of the traced program: name, file, first line, line of
\* the return statement
Codes ==
    {[name |-> "f", file |-> "/home/u/app.py", line |-> 1, retline |-> 5],
     [name |-> "g", file |-> "/home/u/app.py", line |-> 6, retline |-> 8],
     [name |-> "<lambda>", file |-> "/home/u/app.py", line |-> 9, retline |-> 9],
     [name |-> "h", file |-> "/opt/omnitrace/h.py", line |-> 2, retline |-> 3]}
\* pframe.is_none()
NoFrame == [name |-> "", file |-> "", line |-> 0, retline |-> 0]

default_exclude_functions == {"^<.*>$"}
default_exclude_filenames == {"(encoder|decoder|threading).py$", "^<.*>$"}

DefaultConfig ==
    [is_running |-> FALSE, trace_c |-> FALSE, include_internal |-> FALSE,
     include_args |-> FALSE, include_line |-> FALSE, include_filename |-> FALSE,
     full_filepath |-> FALSE, ignore_stack_depth |-> 0, base_stack_depth |-> -1,
     verbose |-> 0, depth_tracker |-> 0, base_module_path |-> "",
     restrict_functions |-> {}, restrict_filenames |-> {},
     include_functions |-> {}, include_filenames |-> {},
     exclude_functions |-> default_exclude_functions,
     exclude_filenames |-> default_exclude_filenames,
     records |-> <<>>]

\* std::regex_search(name, std::regex(pat, egrep)) on the names of the model
regex_search(name, pat) ==
    CASE pat = "^<.*>$" -> name \in {"<lambda>"}
      [] pat = "(encoder|decoder|threading).py$" -> name \in {"/usr/lib/python3/threading.py"}
      [] pat = "^g$" -> name = "g"
      [] pat = "^f$" -> name = "f"
      [] pat = "^.*$" -> TRUE
      [] OTHER -> FALSE

find_matching(expr, name) == \E itr \in expr : regex_search(name, itr)

\* strncmp(_full.c_str(), _omnitrace_path.c_str(), _omnitrace_path.length()) == 0
IsInternalPath(full, path) ==
    \/ path = ""
    \/ path = OmniPath /\ full \in {"/opt/omnitrace/h.py"}
    \/ path = full

\* _full.substr(_full.find_last_of('/') + 1)
Basename(full) ==
    CASE full = "/home/u/app.py" -> "app.py"
      [] full = "/opt/omnitrace/h.py" -> "h.py"
      [] OTHER -> full

Supported == {"call", "c_call", "return", "c_return"}

\* frame->f_lineno at the event
LineAt(frame, swhat) == IF swhat = "call" THEN frame.line ELSE frame.retline

\* a skip that does not count the frames of the subtree
update_ignore_stack_depth_off(d, swhat) == d

update_ignore_stack_depth(d, swhat) ==
    CASE swhat = "call" -> d + 1
      [] swhat = "return" -> d - 1
      [] OTHER -> d

\* an exclusion that adjusts the ignore-stack depth for every name
AdjustsOnExcludeAlways(func) == TRUE

\* if(!_find_matching(default_exclude_functions, _func)) _update_ignore_stack_depth();
AdjustsOnExclude(func) == ~find_matching(default_exclude_functions, func)

\* the checks of profiler_function up to the label: the path it leaves by
\* ("label" when the event is to be recorded) and the new ignore_stack_depth
PfFilter(cfg, opath, frame, swhat) ==
    LET func   == frame.name
        full   == frame.file
        d      == cfg.ignore_stack_depth
        only   == cfg.restrict_functions # {}
        force1 == only /\ find_matching(cfg.restrict_functions, func)
        force2 == force1 \/ find_matching(cfg.include_functions, func)
        onlyf  == ~force2 /\ cfg.restrict_filenames # {}
        force3 == force2 \/ (onlyf /\ find_matching(cfg.restrict_filenames, full))
    IN  IF frame = NoFrame THEN [exit |-> "none_frame", depth |-> d]
        ELSE IF swhat \notin Supported THEN [exit |-> "unsupported", depth |-> d]
        ELSE IF d > 0
             THEN [exit |-> "ignore_stack", depth |-> update_ignore_stack_depth(d, swhat)]
        ELSE IF ~cfg.trace_c /\ swhat \in {"c_call", "c_return"}
             THEN [exit |-> "c_disabled", depth |-> d]
        ELSE IF only /\ ~force1 THEN [exit |-> "restrict_functions", depth |-> d]
        ELSE IF ~force2 /\ find_matching(cfg.exclude_functions, func)
             THEN [exit |-> "exclude_functions",
                   depth |-> IF AdjustsOnExclude(func)
                             THEN update_ignore_stack_depth(d, swhat) ELSE d]
        ELSE IF ~cfg.include_internal /\ IsInternalPath(full, opath)
             THEN [exit |-> "internal", depth |-> d]
        ELSE IF onlyf /\ ~force3 THEN [exit |-> "restrict_filenames", depth |-> d]
        ELSE IF ~force3 /\ ~find_matching(cfg.include_filenames, full)
                /\ find_matching(cfg.exclude_filenames, full)
             THEN [exit |-> "exclude_filenames", depth |-> d]
        ELSE [exit |-> "label", depth |-> d]

\* a label that always carries the file and the line
get_label_located(cfg, frame, swhat, args) ==
    <<frame.name, "[", Basename(frame.file), ":", ToString(LineAt(frame, swhat)), "]">>

\* _get_label: the label as the sequence of its parts
get_label(cfg, frame, swhat, args) ==
    LET bracket == cfg.include_filename
        f1 == IF bracket THEN <<"[", frame.name>> ELSE <<frame.name>>
        f2 == IF cfg.include_args THEN Append(f1, args) ELSE f1
        f3 == IF bracket THEN Append(f2, "]") ELSE f2
        f4 == IF cfg.include_filename
              THEN f3 \o <<"[", IF cfg.full_filepath THEN frame.file
                                 ELSE Basename(frame.file)>>
              ELSE f3
    IN  IF cfg.include_line /\ cfg.include_filename
        THEN f4 \o <<":", ToString(LineAt(frame, swhat)), "]">>
        ELSE IF cfg.include_line THEN f4 \o <<":", ToString(LineAt(frame, swhat))>>
        ELSE IF cfg.include_filename THEN Append(f4, "]")
        ELSE f4

\* the value of _disable once the invocation has left by the named path: the
\* scope::destructor resets it on every path
\* a guard reset only at the normal return statements
GuardLeftOnThrow(path) == path = "exception"

GuardAfterExit(path) == FALSE

\* whether _get_args runs (include_args, or the verbose > 3 print)
NeedsArgs(cfg) == cfg.include_args \/ cfg.verbose > 3

\* the tail of profiler_function: label, then _profiler_call or _profiler_return
PfFinish(t, frame, swhat, args) ==
    LET cfg   == config[t]
        label == get_label(cfg, frame, swhat, args)
    IN  IF label = <<>>
        THEN /\ disable' = [disable EXCEPT ![t] = GuardAfterExit("empty_label")]
             /\ last_exit' = [last_exit EXCEPT ![t] = "empty_label"]
             /\ pf_pc' = [pf_pc EXCEPT ![t] = "idle"]
             /\ UNCHANGED <<config, region_events, labels, hook_on>>
        ELSE IF swhat \in {"call", "c_call"}
        THEN /\ config' = [config EXCEPT ![t].records = Append(@, label)]
             /\ region_events' = [region_events EXCEPT ![t] =
                                    Append(@, [kind |-> "push", label |-> label])]
             /\ labels' = [labels EXCEPT ![t] = @ \cup {label}]
             /\ disable' = [disable EXCEPT ![t] = GuardAfterExit("normal")]
             /\ last_exit' = [last_exit EXCEPT ![t] = "normal"]
             /\ pf_pc' = [pf_pc EXCEPT ![t] = "idle"]
             /\ UNCHANGED hook_on
        ELSE IF cfg.records # <<>>
        THEN /\ config' = [config EXCEPT ![t].records = ButLast(@)]
             /\ region_events' = [region_events EXCEPT ![t] =
                                    Append(@, [kind |-> "pop", label |-> Last(cfg.records)])]
             /\ labels' = [labels EXCEPT ![t] = @ \cup {label}]
             /\ disable' = [disable EXCEPT ![t] = GuardAfterExit("normal")]
             /\ last_exit' = [last_exit EXCEPT ![t] = "normal"]
             /\ pf_pc' = [pf_pc EXCEPT ![t] = "idle"]
             /\ UNCHANGED hook_on
        ELSE \* records.back() on an empty vector is undefined: the process
             \* crashes, or the call of the garbage closure throws
             /\ labels' = [labels EXCEPT ![t] = @ \cup {label}]
             /\ \/ /\ pf_pc' = [pf_pc EXCEPT ![t] = "crashed"]
                   /\ last_exit' = [last_exit EXCEPT ![t] = "crash"]
                   /\ UNCHANGED <<disable, hook_on>>
                \/ /\ pf_pc' = [pf_pc EXCEPT ![t] = "idle"]
                   /\ last_exit' = [last_exit EXCEPT ![t] = "exception"]
                   /\ disable' = [disable EXCEPT ![t] = GuardAfterExit("exception")]
                   /\ hook_on' = [hook_on EXCEPT ![t] = FALSE]
             /\ UNCHANGED <<config, region_events>>

\* a hook without the early return on the guard
ShortCircuitsNever(t) == FALSE

\* if(_disable) return;
ShortCircuits(t) == disable[t]

\* profiler_function(pframe, swhat, arg), up to the point where it formats
\* the frame's arguments (which runs interpreter code)
profiler_function(t, frame, swhat) ==
    IF ShortCircuits(t)
    THEN UNCHANGED <<config, disable, omnitrace_path, hook_on, pf_pc, pf_pending,
                     region_events, labels, last_exit>>
    ELSE LET opath == IF frame = NoFrame \/ omnitrace_path.set
                      THEN omnitrace_path
                      ELSE [set |-> TRUE, value |-> config[t].base_module_path]
             out   == PfFilter(config[t], opath.value, frame, swhat)
         IN  /\ omnitrace_path' = opath
             /\ IF out.exit # "label"
                THEN /\ config' = [config EXCEPT ![t].ignore_stack_depth = out.depth]
                     /\ disable' = [disable EXCEPT ![t] = GuardAfterExit(out.exit)]
                     /\ last_exit' = [last_exit EXCEPT ![t] = out.exit]
                     /\ UNCHANGED <<hook_on, pf_pc, pf_pending, region_events, labels>>
                ELSE IF NeedsArgs(config[t])
                THEN /\ disable' = [disable EXCEPT ![t] = TRUE]
                     /\ pf_pc' = [pf_pc EXCEPT ![t] = "args"]
                     /\ pf_pending' = [pf_pending EXCEPT ![t] =
                                         [frame |-> frame, swhat |-> swhat]]
                     /\ UNCHANGED <<config, hook_on, region_events, labels, last_exit>>
                ELSE /\ PfFinish(t, frame, swhat, "")
                     /\ UNCHANGED pf_pending

\* the interpreter may deliver an event to the hook of thread t
CanDeliver(t) ==
    /\ hook_on[t]
    /\ pf_pc[t] = "idle"
    /\ nevents[t] < MaxPyEvents

PyCall(t, code) ==
    /\ CanDeliver(t)
    /\ ~in_c[t]
    /\ Len(frames[t]) < MaxPyFrames
    /\ frames' = [frames EXCEPT ![t] = Append(@, code)]
    /\ nevents' = [nevents EXCEPT ![t] = @ + 1]
    /\ profiler_function(t, code, "call")
    /\ ev_log' = [ev_log EXCEPT ![t] = Append(@, [what |-> "call", name |-> code.name])]
    /\ UNCHANGED <<in_c, nnested, hipvars, lifevars, cfgvars, extvars>>

PyReturn(t) ==
    /\ CanDeliver(t)
    /\ ~in_c[t]
    /\ frames[t] # <<>>
    /\ frames' = [frames EXCEPT ![t] = ButLast(@)]
    /\ nevents' = [nevents EXCEPT ![t] = @ + 1]
    /\ profiler_function(t, Last(frames[t]), "return")
    /\ ev_log' = [ev_log EXCEPT ![t] = Append(@, [what |-> "return", name |-> Last(frames[t]).name])]
    /\ UNCHANGED <<in_c, nnested, hipvars, lifevars, cfgvars, extvars>>

PyCCall(t) ==
    /\ CanDeliver(t)
    /\ ~in_c[t]
    /\ frames[t] # <<>>
    /\ in_c' = [in_c EXCEPT ![t] = TRUE]
    /\ nevents' = [nevents EXCEPT ![t] = @ + 1]
    /\ profiler_function(t, Last(frames[t]), "c_call")
    /\ ev_log' = [ev_log EXCEPT ![t] = Append(@, [what |-> "c_call", name |-> Last(frames[t]).name])]
    /\ UNCHANGED <<frames, nnested, hipvars, lifevars, cfgvars, extvars>>

PyCReturn(t) ==
    /\ CanDeliver(t)
    /\ in_c[t]
    /\ in_c' = [in_c EXCEPT ![t] = FALSE]
    /\ nevents' = [nevents EXCEPT ![t] = @ + 1]
    /\ profiler_function(t, Last(frames[t]), "c_return")
    /\ ev_log' = [ev_log EXCEPT ![t] = Append(@, [what |-> "c_return", name |-> Last(frames[t]).name])]
    /\ UNCHANGED <<frames, nnested, hipvars, lifevars, cfgvars, extvars>>

\* the C function raised: the interpreter reports c_exception, not c_return
PyCException(t) ==
    /\ CanDeliver(t)
    /\ in_c[t]
    /\ in_c' = [in_c EXCEPT ![t] = FALSE]
    /\ nevents' = [nevents EXCEPT ![t] = @ + 1]
    /\ profiler_function(t, Last(frames[t]), "c_exception")
    /\ ev_log' = [ev_log EXCEPT ![t] = Append(@, [what |-> "c_exception", name |-> Last(frames[t]).name])]
    /\ UNCHANGED <<frames, nnested, hipvars, lifevars, cfgvars, extvars>>

\* profiler_function called with None for the frame
PyNoneFrame(t) ==
    /\ CanDeliver(t)
    /\ nevents' = [nevents EXCEPT ![t] = @ + 1]
    /\ profiler_function(t, NoFrame, "call")
    /\ ev_log' = [ev_log EXCEPT ![t] = Append(@, [what |-> "call", name |-> NoFrame.name])]
    /\ UNCHANGED <<frames, in_c, nnested, hipvars, lifevars, cfgvars, extvars>>

\* an event of the code run by inspect.formatargvalues (a __repr__), delivered
\* while the outer invocation is still executing
PfNested(t, code, swhat) ==
    /\ pf_pc[t] = "args"
    /\ nnested[t] < MaxNested
    /\ nnested' = [nnested EXCEPT ![t] = @ + 1]
    /\ IF ShortCircuits(t)
       THEN UNCHANGED <<config, region_events, labels>>
       ELSE LET cfg   == config[t]
                out   == PfFilter(cfg, omnitrace_path.value, code, swhat)
                label == get_label(cfg, code, swhat, "")
            IN  IF out.exit # "label"
                THEN /\ config' = [config EXCEPT ![t].ignore_stack_depth = out.depth]
                     /\ UNCHANGED <<region_events, labels>>
                ELSE IF swhat = "call"
                THEN /\ config' = [config EXCEPT ![t].records = Append(@, label)]
                     /\ region_events' = [region_events EXCEPT ![t] =
                                Append(@, [kind |-> "push", label |-> label])]
                     /\ labels' = [labels EXCEPT ![t] = @ \cup {label}]
                ELSE IF cfg.records # <<>>
                THEN /\ config' = [config EXCEPT ![t].records = ButLast(@)]
                     /\ region_events' = [region_events EXCEPT ![t] =
                                Append(@, [kind |-> "pop", label |-> Last(cfg.records)])]
                     /\ labels' = [labels EXCEPT ![t] = @ \cup {label}]
                ELSE UNCHANGED <<config, region_events, labels>>
    /\ UNCHANGED <<disable, omnitrace_path, frames, in_c, hook_on, pf_pc, pf_pending,
                   last_exit, nevents, ev_log, hipvars, lifevars, cfgvars, extvars>>

ArgResults == {"(x=1)", "AttributeError", "Error"}

\* _get_args returns: the formatted arguments, the empty string after an
\* AttributeError, or any other exception rethrown
PfArgs(t, res) ==
    /\ pf_pc[t] = "args"
    /\ IF res = "Error"
       THEN /\ disable' = [disable EXCEPT ![t] = GuardAfterExit("exception")]
            /\ last_exit' = [last_exit EXCEPT ![t] = "exception"]
            /\ pf_pc' = [pf_pc EXCEPT ![t] = "idle"]
            /\ hook_on' = [hook_on EXCEPT ![t] = FALSE]
            /\ UNCHANGED <<config, region_events, labels>>
       ELSE PfFinish(t, pf_pending[t].frame, pf_pending[t].swhat,
                     IF res = "AttributeError" THEN "" ELSE res)
    /\ UNCHANGED <<omnitrace_path, frames, in_c, pf_pending, nevents, nnested, ev_log,
                   hipvars, lifevars, cfgvars, extvars>>

RestrictChoices == {{}, {"^g$"}}
ExcludeChoices == {default_exclude_functions, default_exclude_functions \cup {"^g$"},
                   default_exclude_functions \cup {"^.*$"}}

PyConfigs ==
    {[DefaultConfig EXCEPT !.trace_c = tc, !.include_args = ia,
                           !.restrict_functions = rf, !.exclude_functions = ef,
                           !.base_module_path = OmniPath] :
        tc \in BOOLEAN, ia \in BOOLEAN, rf \in RestrictChoices, ef \in ExcludeChoices}

\* the interpreter-side state before the first event
PyStart ==
    /\ disable = [t \in PyThreads |-> FALSE]
    /\ omnitrace_path = [set |-> FALSE, value |-> ""]
    /\ frames = [t \in PyThreads |-> <<>>]
    /\ in_c = [t \in PyThreads |-> FALSE]
    /\ hook_on = [t \in PyThreads |-> TRUE]
    /\ pf_pc = [t \in PyThreads |-> "idle"]
    /\ pf_pending = [t \in PyThreads |-> [frame |-> NoFrame, swhat |-> "call"]]
    /\ region_events = [t \in PyThreads |-> <<>>]
    /\ labels = [t \in PyThreads |-> {}]
    /\ last_exit = [t \in PyThreads |-> "none"]
    /\ nevents = [t \in PyThreads |-> 0]
    /\ nnested = [t \in PyThreads |-> 0]
    /\ ev_log = [t \in PyThreads |-> <<>>]

\* get_config() when the threads of PyThreads have made their first access:
\* the mark of a configuration operation that assigns no regex set
NoAssignment == [field |-> "none", list |-> <<>>]

\* the first of them holds the master, no other thread has a configuration yet
CfgAccessed ==
    /\ cfg_obj = [t \in CfgThreads |-> IF t \in PyThreads THEN "master" ELSE "none"]
    /\ cfg_count = Cardinality(PyThreads)
    /\ cfg_pc = [t \in CfgThreads |-> "idle"]
    /\ cfg_own = [t \in CfgThreads |-> {}]
    /\ cfg_actor = MainThread
    /\ cfg_ops = 0
    /\ cfg_last = NoAssignment

\* OnLoad, OnUnload and the module's initialize/finalize have not been called
LifeStart ==
    /\ n_onload = 0
    /\ onload_ret = "none"
    /\ onload_tooling = TRUE
    /\ sampling_stack = <<>>
    /\ n_init_tooling = 0
    /\ skew_computed = FALSE
    /\ setup_routines = <<>>
    /\ shutdown_routines = <<>>
    /\ setup_log = <<>>
    /\ n_unload = 0
    /\ n_shutdown = 0
    /\ n_finalize_hidden = 0
    /\ unload_log = <<>>
    /\ is_initialized = FALSE
    /\ is_finalized = FALSE
    /\ n_set_mpi = 0
    /\ n_init = 0
    /\ n_finalize = 0
    /\ mod_log = <<>>

PyInit ==
    /\ config \in {[t \in CfgThreads |-> IF t \in PyThreads THEN c ELSE DefaultConfig] :
                     c \in PyConfigs}
    /\ PyStart
    /\ CfgAccessed

\* the interpreter side when no python code runs
PyIdle ==
    /\ config = [t \in CfgThreads |-> DefaultConfig]
    /\ PyStart
    /\ CfgAccessed

\* the roctracer side with every sink enabled
HipIdle ==
    /\ HipInit
    /\ use_perfetto /\ use_timemory /\ use_critical_trace
    /\ clock_skew = -1

PyNext ==
    \/ \E t \in PyThreads, code \in Codes : PyCall(t, code)
    \/ \E t \in PyThreads : PyReturn(t)
    \/ \E t \in PyThreads : PyCCall(t)
    \/ \E t \in PyThreads : PyCReturn(t)
    \/ \E t \in PyThreads : PyCException(t)
    \/ \E t \in PyThreads : PyNoneFrame(t)
    \/ \E t \in PyThreads, code \in Codes, swhat \in {"call", "return"} :
          PfNested(t, code, swhat)
    \/ \E t \in PyThreads, res \in ArgResults : PfArgs(t, res)

\* python code runs under the profiler, the roctracer side stays idle
PyRunInit == PyInit /\ HipIdle /\ LifeStart /\ command_line = <<>>

PySpec == PyRunInit /\ [][PyNext]_vars

(* ------------------- get_config() and the config setters --------------- *)
\* the configurations the setters can leave before profiler_init is called
FilterConfigs ==
    {[DefaultConfig EXCEPT !.trace_c = tc, !.include_internal = ii,
                           !.restrict_functions = rf, !.exclude_functions = ef] :
        tc \in BOOLEAN, ii \in BOOLEAN, rf \in RestrictChoices, ef \in ExcludeChoices}

\* a get_config() that hands the master to every thread
tl_instance_shared(cnt) == "master"

\* if(_cnt == 0) return _instance; otherwise a new config
tl_instance(cnt) == IF cnt = 0 THEN "master" ELSE "own"

\* *_instance: the object of the thread that got the master, a fresh config
\* before any thread has one
MasterConfig ==
    IF \E u \in CfgThreads : cfg_obj[u] = "master"
    THEN config[CHOOSE u \in CfgThreads : cfg_obj[u] = "master"]
    ELSE DefaultConfig

\* the threads whose get_config() returns the object thread t writes to
SharesObject(t) ==
    {u \in CfgThreads : u = t \/ (cfg_obj[t] = "master" /\ cfg_obj[u] = "master")}

\* thread t stores cfg into its configuration object; a thread that is copying
\* the same object at that moment races with the store
StoreConfig(t, cfg) ==
    /\ config' = [u \in CfgThreads |-> IF u \in SharesObject(t) THEN cfg ELSE config[u]]
    /\ cfg_pc' = [u \in CfgThreads |->
                    IF cfg_pc[u] = "copy" /\ cfg_obj[t] = "master" THEN "raced"
                    ELSE cfg_pc[u]]

HasConfig(t) == cfg_obj[t] # "none" /\ cfg_pc[t] = "idle"

\* the first get_config() of thread t up to the copy of base_module_path: the
\* count is taken, the first thread gets the master, any other thread a new
\* config whose flags are read from the master
GetConfigFirst(t) ==
    /\ cfg_obj[t] = "none"
    /\ cfg_pc[t] = "idle"
    /\ cfg_count' = cfg_count + 1
    /\ cfg_actor' = t
    /\ IF tl_instance(cfg_count) = "master"
       THEN /\ cfg_obj' = [cfg_obj EXCEPT ![t] = "master"]
            /\ config' = [config EXCEPT ![t] = MasterConfig]
            /\ UNCHANGED cfg_pc
       ELSE /\ cfg_pc' = [cfg_pc EXCEPT ![t] = "copy"]
            /\ config' = [config EXCEPT ![t] =
                 [DefaultConfig EXCEPT
                    !.is_running = MasterConfig.is_running,
                    !.trace_c = MasterConfig.trace_c,
                    !.include_internal = MasterConfig.include_internal,
                    !.include_args = MasterConfig.include_args,
                    !.include_line = MasterConfig.include_line,
                    !.include_filename = MasterConfig.include_filename,
                    !.full_filepath = MasterConfig.full_filepath,
                    !.base_module_path = MasterConfig.base_module_path]]
            /\ UNCHANGED cfg_obj
    /\ UNCHANGED <<cfg_own, cfg_ops, cfg_last>>
    /\ UNCHANGED <<disable, omnitrace_path, frames, in_c, hook_on, pf_pc, pf_pending,
                   region_events, labels, last_exit, nevents, nnested, ev_log>>
    /\ UNCHANGED <<hipvars, lifevars, extvars>>

\* the rest of the first get_config(): the six sets and verbose are copied,
\* full_filepath implies include_filename. The master is read without any
\* lock: when its owner stored into it meanwhile the copy is torn, or the
\* read of a set under modification brings the process down
GetConfigCopied(t) ==
    /\ cfg_pc[t] \in {"copy", "raced"}
    /\ cfg_actor' = t
    /\ \/ /\ cfg_pc' = [cfg_pc EXCEPT ![t] = "idle"]
          /\ cfg_obj' = [cfg_obj EXCEPT ![t] = "own"]
          /\ config' = [config EXCEPT ![t] =
               [@ EXCEPT
                  !.restrict_functions = MasterConfig.restrict_functions,
                  !.restrict_filenames = MasterConfig.restrict_filenames,
                  !.include_functions = MasterConfig.include_functions,
                  !.include_filenames = MasterConfig.include_filenames,
                  !.exclude_functions = MasterConfig.exclude_functions,
                  !.exclude_filenames = MasterConfig.exclude_filenames,
                  !.verbose = MasterConfig.verbose,
                  !.include_filename = @ \/ config[t].full_filepath]]
       \/ /\ cfg_pc[t] = "raced"
          /\ cfg_pc' = [cfg_pc EXCEPT ![t] = "crashed"]
          /\ UNCHANGED <<cfg_obj, config>>
    /\ UNCHANGED <<cfg_count, cfg_own, cfg_ops, cfg_last>>
    /\ UNCHANGED <<disable, omnitrace_path, frames, in_c, hook_on, pf_pc, pf_pending,
                   region_events, labels, last_exit, nevents, nnested, ev_log>>
    /\ UNCHANGED <<hipvars, lifevars, extvars>>

\* the flags and sets the threads set through profiler.config
BoolFields == {"include_args", "full_filepath"}
StrsetFields == {"exclude_functions"}
\* the lists assigned: empty, one new regex, the default set as the getter
\* lists it, a list with a repeated element
StrsetValues == {<<>>, <<"^g$">>, <<"^<.*>$">>, <<"^g$", "^<.*>$", "^g$">>}

\* what a config write of thread t leaves alone
CfgWriteFrame(t, fields) ==
    /\ HasConfig(t)
    /\ cfg_ops < MaxCfgOps
    /\ cfg_ops' = cfg_ops + 1
    /\ cfg_actor' = t
    /\ cfg_own' = [cfg_own EXCEPT ![t] = @ \cup fields]
    /\ UNCHANGED <<cfg_obj, cfg_count>>
    /\ UNCHANGED <<disable, omnitrace_path, frames, in_c, hook_on, pf_pc, pf_pending,
                   region_events, labels, last_exit, nevents, nnested, ev_log>>
    /\ UNCHANGED <<hipvars, lifevars, extvars>>

\* CONFIGURATION_PROPERTY setter: get_config().NAME = val
SetProperty(t, field, val) ==
    /\ CfgWriteFrame(t, {field})
    /\ cfg_last' = NoAssignment
    /\ StoreConfig(t, [config[t] EXCEPT ![field] = val])

\* a setter that replaces the set by the elements of the list
set_strset_assign(inp, targ) == {inp[i] : i \in DOMAIN inp}

\* _set_strset: for(const auto& itr : _inp) _targ.insert(itr.cast<std::string>())
set_strset(inp, targ) == targ \cup {inp[i] : i \in DOMAIN inp}

\* CONFIGURATION_STRSET setter: _set_strset inserts every element of the list
SetStrset(t, field, vals) ==
    /\ CfgWriteFrame(t, {field})
    /\ cfg_last' = [field |-> field, list |-> vals]
    /\ StoreConfig(t, [config[t] EXCEPT ![field] = set_strset(vals, @)])

\* profiler_init
profiler_init(t) ==
    /\ CfgWriteFrame(t, {"base_module_path", "is_running", "base_stack_depth", "records"})
    /\ cfg_last' = NoAssignment
    /\ LET c1 == [config[t] EXCEPT !.base_module_path = OmniPath]
       IN  StoreConfig(t, IF c1.is_running THEN c1
                          ELSE [c1 EXCEPT !.records = <<>>, !.base_stack_depth = -1,
                                          !.is_running = TRUE])

\* profiler_finalize
profiler_finalize(t) ==
    /\ CfgWriteFrame(t, {"is_running", "base_stack_depth", "records"})
    /\ cfg_last' = NoAssignment
    /\ StoreConfig(t, IF ~config[t].is_running THEN config[t]
                      ELSE [config[t] EXCEPT !.is_running = FALSE,
                                             !.base_stack_depth = -1,
                                             !.records = <<>>])

\* profiler_function on the CALL of a function excluded by a custom regex:
\* _update_ignore_stack_depth
SkipCall(t) ==
    /\ config[t].ignore_stack_depth < MaxPyFrames
    /\ CfgWriteFrame(t, {"ignore_stack_depth"})
    /\ cfg_last' = NoAssignment
    /\ StoreConfig(t, [config[t] EXCEPT !.ignore_stack_depth =
                          update_ignore_stack_depth(@, "call")])

\* no thread has called get_config() yet
CfgInit ==
    /\ config = [t \in CfgThreads |-> DefaultConfig]
    /\ PyStart
    /\ cfg_obj = [t \in CfgThreads |-> "none"]
    /\ cfg_count = 0
    /\ cfg_pc = [t \in CfgThreads |-> "idle"]
    /\ cfg_own = [t \in CfgThreads |-> {}]
    /\ cfg_actor = MainThread
    /\ cfg_ops = 0
    /\ cfg_last = NoAssignment
    /\ HipIdle
    /\ LifeStart
    /\ command_line = <<>>

CfgNext ==
    \/ \E t \in CfgThreads : GetConfigFirst(t)
    \/ \E t \in CfgThreads : GetConfigCopied(t)
    \/ \E t \in CfgThreads, field \in BoolFields, val \in BOOLEAN :
          SetProperty(t, field, val)
    \/ \E t \in CfgThreads, field \in StrsetFields, vals \in StrsetValues :
          SetStrset(t, field, vals)
    \/ \E t \in CfgThreads : profiler_init(t)
    \/ \E t \in CfgThreads : profiler_finalize(t)
    \/ \E t \in CfgThreads : SkipCall(t)

CfgSpec == CfgInit /\ [][CfgNext]_vars

(* ---------------- the python module: initialize, finalize -------------- *)
\* the argument lists python hands to initialize
ArgLists == {<<>>, <<"a.py", "-x">>}
\* what can go wrong inside initialize after the check: the mpi4py probe
\* rethrows, a list element is not a string, omnitrace_init throws
InitFaults == {"none", "mpi", "cast", "init"}

\* _cmd_line: every element preceded by a blank (the substr that would strip
\* the leading blank discards its result)
RECURSIVE JoinArgs(_)
JoinArgs(v) == IF v = <<>> THEN <<>> ELSE JoinArgs(ButLast(v)) \o <<" ", Last(v)>>

\* tim::set_env(name, value, 0): an existing value is kept
set_env(old, val) == IF old = <<>> THEN val ELSE old

\* an initialize without the already-initialized check
InitializeRaisesNever(init) == FALSE

\* if(_is_initialized) throw std::runtime_error(...)
InitializeRaises(init) == init

\* a finalize without the already-finalized check
FinalizeRaisesNever(fin) == FALSE

\* if(_is_finalized) throw std::runtime_error(...)
FinalizeRaises(fin) == fin

\* omnitrace_finalize(): the tracer is left Finalized
omnitrace_finalize(st) == "Finalized"

\* an entry of the log of module calls: the function, the overload, how the
\* call ended, and whether OnLoad had run before it
ModCall(op, form, result) ==
    [op |-> op, form |-> form, result |-> result, loaded |-> n_onload > 0]

\* initialize(str) and initialize(list)
Initialize(form, arg, fault) ==
    /\ Len(mod_log) < MaxModCalls
    /\ form = "string" => (arg # <<>> /\ fault # "cast")
    /\ IF InitializeRaises(is_initialized)
       THEN /\ mod_log' = Append(mod_log, ModCall("initialize", form, "already"))
            /\ UNCHANGED <<is_initialized, n_set_mpi, n_init, command_line>>
       ELSE /\ is_initialized' = TRUE
            /\ n_set_mpi' = IF fault = "mpi" THEN n_set_mpi ELSE n_set_mpi + 1
            /\ command_line' =
                 IF form = "list" /\ fault \notin {"mpi", "cast"} /\ arg # <<>>
                 THEN set_env(command_line, JoinArgs(arg))
                 ELSE command_line
            /\ n_init' = IF fault \in {"mpi", "cast"} THEN n_init ELSE n_init + 1
            /\ mod_log' = Append(mod_log, ModCall("initialize", form,
                                IF fault = "none" THEN "ok" ELSE "error"))
    /\ UNCHANGED <<is_finalized, n_finalize>>
    /\ UNCHANGED <<hipvars, pyvars, loadvars, unloadvars, cfgvars, extvars>>

\* finalize()
Finalize ==
    /\ Len(mod_log) < MaxModCalls
    /\ IF FinalizeRaises(is_finalized)
       THEN /\ mod_log' = Append(mod_log, ModCall("finalize", "none", "already"))
            /\ UNCHANGED <<is_finalized, n_finalize, state>>
       ELSE /\ is_finalized' = TRUE
            /\ n_finalize' = n_finalize + 1
            /\ state' = omnitrace_finalize(state)
            /\ mod_log' = Append(mod_log, ModCall("finalize", "none", "ok"))
    /\ UNCHANGED <<is_initialized, n_set_mpi, n_init, command_line>>
    /\ UNCHANGED <<telemetry, unload_pc, use_perfetto, use_timemory,
                   use_critical_trace, use_rocm_smi, clock_skew, now, next_corr,
                   key_data, tid_data, cid_data, next_cid, calls, pc, cur,
                   hip_activity_callbacks, hip_activity_mutex, wpc, wleft, wpend,
                   ndelivered, nrec, nclosure, host_events, device_events,
                   critical_trace, executed, records_seen, raised>>
    /\ UNCHANGED <<pyvars, loadvars, unloadvars, cfgvars, extvars>>

\* the process before the module and the runtime have called anything; the
\* environment may already hold a command line
LifeInit ==
    /\ HipIdle
    /\ PyIdle
    /\ LifeStart
    /\ command_line \in {<<>>, <<"preset">>}

LifeNext ==
    \/ \E form \in {"string", "list"}, arg \in ArgLists, fault \in InitFaults :
          Initialize(form, arg, fault)
    \/ Finalize
    \/ \E b \in BOOLEAN, c \in BOOLEAN, f \in BOOLEAN : OnLoad(b, c, f)
    \/ OnUnload
    \/ OnUnloadDrain

LifeSpec == LifeInit /\ [][LifeNext]_vars

(* --------------------------- specification ---------------------------- *)
\* the roctracer side: the runtime loads the tool with tooling enabled and
\* unloads it once
OnUnloadOnce == n_unload = 0 /\ OnUnload

Init == HipInit /\ PyIdle /\ LifeStart /\ command_line = <<>>

Next ==
    \/ \E t \in AppThreads, api \in Apis, kname \in KernelNames \cup {NULL},
          stream \in Streams : HipApiEnter(t, api, kname, stream)
    \/ \E t \in AppThreads : HipApiExit(t)
    \/ \E t \in AppThreads : HipApiExitTail(t)
    \/ \E t \in AppThreads : HipExecLock(t)
    \/ \E t \in AppThreads : HipExecRun(t)
    \/ \E t \in AppThreads : HipExecClear(t)
    \/ \E w \in Workers, n \in 0..MaxBuf : HipActivityCallback(w, n)
    \/ \E w \in Workers, r \in Records, op_name \in {"DISPATCH", "COPY", "BARRIER", NULL} :
          HipActivityRecord(w, r, op_name)
    \/ \E w \in Workers : HipActivityAppend(w)
    \/ OnLoad(TRUE, FALSE, FALSE)
    \/ OnUnloadOnce
    \/ OnUnloadDrain

Spec == Init /\ [][Next]_vars

\* the runs with every sink enabled, under the scheduling the process has:
\* every thread that can take a step eventually takes it, the library is
\* eventually unloaded
LiveInit ==
    /\ Init
    /\ use_perfetto /\ use_timemory /\ use_critical_trace
    /\ clock_skew = -1

Fairness ==
    /\ WF_vars(OnUnloadOnce)
    /\ WF_vars(OnUnloadDrain)
    /\ \A w \in Workers :
          /\ WF_vars(\E r \in Records, op_name \in {"DISPATCH", "COPY", "BARRIER", NULL} :
                        HipActivityRecord(w, r, op_name))
          /\ WF_vars(HipActivityAppend(w))
    /\ \A t \in AppThreads :
          /\ WF_vars(HipExecLock(t))
          /\ WF_vars(HipExecRun(t))
          /\ WF_vars(HipExecClear(t))

LiveSpec == LiveInit /\ [][Next]_vars /\ Fairness

(* ============================ properties ============================== *)
EndsOf(c) ==
    {i \in DOMAIN host_events :
        host_events[i].kind = "END" /\ host_events[i].corr = c}

InFlight(c) ==
    \E t \in AppThreads : \E i \in DOMAIN calls[t] : calls[t][i].corr = c

\* C1: every host BEGIN event of correlation id c is followed by exactly one
\* END event of c, whose timestamp is not before the BEGIN's, whatever the
\* tracer state is at the ENTER and at the EXIT invocation: no second END at
\* any time, and the END is there once the call of c has returned
C1_BeginHasOneEnd ==
    \A i \in DOMAIN host_events :
        host_events[i].kind = "BEGIN" =>
            LET c == host_events[i].corr
            IN  /\ Cardinality(EndsOf(c)) <= 1
                /\ \A j \in EndsOf(c) :
                      j > i /\ host_events[j].ts >= host_events[i].ts
                /\ ~InFlight(c) => Cardinality(EndsOf(c)) = 1

\* C2: once every python frame entered under the profiler has returned (the
\* RETURN matching the first recorded CALL has been processed) and no
\* invocation has thrown, the stack of pop closures of the thread is empty
C2_RecordsEmptyAfterReturn ==
    \A t \in PyThreads :
        (frames[t] = <<>> /\ ~in_c[t] /\ pf_pc[t] = "idle" /\ hook_on[t]) =>
            config[t].records = <<>>

\* C3: the recursion guard of profiler_function is false whenever no
\* invocation of profiler_function is executing on the thread
C3_GuardClearWhenIdle ==
    \A t \in PyThreads : pf_pc[t] = "idle" => ~disable[t]

\* an invocation has left by the exception thrown while formatting arguments
C3_Witness ==
    \E t \in PyThreads :
        last_exit[t] = "exception" /\ pf_pc[t] = "idle" /\ nevents[t] > 1

\* the name the registry and the op string give for processed record s
RawName(s) ==
    IF s.found THEN key_data[s.corr] ELSE roctracer_op_string(s.op)

\* the closures still queued, each with the thread whose queue holds it
Queued ==
    UNION {{[id |-> hip_activity_callbacks[t][i].id,
             rec |-> hip_activity_callbacks[t][i].rec,
             name |-> hip_activity_callbacks[t][i].name,
             queue |-> t] : i \in DOMAIN hip_activity_callbacks[t]} : t \in Threads}

\* C4 as stated: the name of a device span is the registry's stored kernel
\* name when the registry had the correlation id, else the op string
C4_SpanNameIsStoredName ==
    \A i \in DOMAIN device_events :
        device_events[i].name = RawName(records_seen[device_events[i].rec])

\* C4: the name of a device span is the demangled form of the registry's
\* stored kernel name when the registry had the correlation id, else of the op
\* string; the statistical sample of a record carries the stored name itself
C4_SpanNameIsDemangledName ==
    /\ \A i \in DOMAIN device_events :
          device_events[i].name = demangle(RawName(records_seen[device_events[i].rec]))
    /\ \A i \in DOMAIN executed :
          /\ records_seen[executed[i].rec].found
          /\ executed[i].name = key_data[records_seen[executed[i].rec].corr]

\* a span of a registered mangled kernel name, and a span of a lookup miss
C4_Witness ==
    /\ \E i \in DOMAIN device_events :
          /\ records_seen[device_events[i].rec].found
          /\ device_events[i].name = "bar()"
    /\ \E i \in DOMAIN device_events :
          /\ ~records_seen[device_events[i].rec].found
          /\ device_events[i].name = "COPY"


\* the device event emitted for processed record s, if any
EventsOf(s) == {i \in DOMAIN device_events : device_events[i].rec = s.rec}

\* the records that were processed up to the outputs
Processed == {i \in DOMAIN records_seen : ~records_seen[i].skipped}

C6_MissAttributedToWorker ==
    \A r \in Processed :
        ~records_seen[r].found =>
            LET s == records_seen[r]
            IN  /\ use_perfetto => Cardinality(EventsOf(s)) = 1
                /\ \A i \in EventsOf(s) :
                      /\ device_events[i].name = roctracer_op_string(s.op)
                      /\ device_events[i].thr = s.by
                /\ \A i \in DOMAIN critical_trace :
                      critical_trace[i].rec = s.rec => critical_trace[i].tid = s.by

\* closure k was executed
Executed(k) == \E i \in DOMAIN executed : executed[i].id = k

C8_QueueIsFifo ==
    \A i \in DOMAIN executed : \A j \in DOMAIN executed :
        (i < j /\ executed[i].queue = executed[j].queue) =>
            executed[i].id < executed[j].id

\* two closures of one queue executed by one drain, and two by two drains
C8_Witness ==
    \E i \in DOMAIN executed : \E j \in DOMAIN executed :
        /\ i < j
        /\ executed[i].queue = executed[j].queue
        /\ executed[i].by # executed[j].by

\* C9 as stated: no closure is executed while the draining thread holds the
\* mutex of the queue
C9_ClosuresRunUnlocked ==
    \A i \in DOMAIN executed : ~executed[i].locked

\* C9: the draining thread holds the mutex of the queue from before the first
\* closure until the queue is cleared: every closure is executed under the
\* mutex, and no append to the queue happens during the drain
C9_ClosuresRunLocked ==
    /\ [](\A i \in DOMAIN executed : executed[i].locked)
    /\ [](\A t \in AppThreads : pc[t] = "exec_run" => hip_activity_mutex[t] = {t})
    /\ [][\A t \in AppThreads :
            (pc[t] = "exec_run" /\ pc'[t] = "exec_run") =>
                hip_activity_callbacks'[t] = hip_activity_callbacks[t]]_vars

\* a drain has executed a closure and still holds the mutex, while a worker
\* waits to append to the same queue
C9_Witness ==
    \E t \in AppThreads : \E w \in Workers :
        /\ pc[t] = "exec_run"
        /\ cur[t].idx > 1
        /\ \E i \in DOMAIN executed : executed[i].by = t /\ executed[i].locked
        /\ wpc[w] = "append"
        /\ wpend[w].tid = t

\* C10 as stated: no device-timeline event is emitted on a runtime worker
\* thread; the event of a record exists only once the closure queued for the
\* record has been executed by a drain of the origin thread
C10_EmissionDeferred ==
    \A i \in DOMAIN device_events :
        /\ device_events[i].thr \notin Workers
        /\ \E j \in DOMAIN executed : executed[j].rec = device_events[i].rec

\* C10: the device-timeline event of a record is emitted by the worker thread
\* inside the activity callback, as soon as the record is processed and
\* whether or not a closure is queued; the closure, queued to the origin
\* thread only for a registered correlation id with the statistical sink
\* enabled, defers the statistical sample alone
C10_EmissionOnWorker ==
    /\ \A i \in DOMAIN device_events :
          /\ device_events[i].thr \in Workers
          /\ device_events[i].thr = records_seen[device_events[i].rec].by
    /\ \A r \in Processed :
          use_perfetto => Cardinality(EventsOf(records_seen[r])) = 1
    /\ \A c \in Queued :
          /\ records_seen[c.rec].found
          /\ use_timemory
          /\ c.queue = tid_data[records_seen[c.rec].corr]
    /\ \A i \in DOMAIN executed :
          records_seen[executed[i].rec].found /\ use_timemory

\* the event of a record is on the timeline while the closure of the record is
\* still queued, and a record without any closure has its event too
C10_Witness ==
    /\ \E i \in DOMAIN device_events : \E c \in Queued :
          c.rec = device_events[i].rec
    /\ \E i \in DOMAIN device_events :
          ~records_seen[device_events[i].rec].found

(* ------------------- the lifecycle: module and runtime ---------------- *)
InitializeCalls == {i \in DOMAIN mod_log : mod_log[i].op = "initialize"}
FinalizeCalls == {i \in DOMAIN mod_log : mod_log[i].op = "finalize"}
ModCallStep == Len(mod_log') = Len(mod_log) + 1
OnLoadStep == n_onload' = n_onload + 1
OnUnloadStep == n_unload' = n_unload + 1

\* C11: once initialize has been called (string or list form), every later
\* call of initialize raises and has no effect: omnitrace_set_mpi and
\* omnitrace_init are not called again, OMNITRACE_COMMAND_LINE keeps its value
\* and is_initialized() stays true
C11_LaterInitializeRaises ==
    [][(ModCallStep /\ Last(mod_log').op = "initialize" /\ InitializeCalls # {})
          => /\ Last(mod_log').result = "already"
             /\ n_set_mpi' = n_set_mpi
             /\ n_init' = n_init
             /\ command_line' = command_line
             /\ is_initialized /\ is_initialized']_vars

\* initialize(list) that set the command line, then initialize(str) that raised
C11_Witness ==
    /\ Len(mod_log) >= 2
    /\ mod_log[1].op = "initialize" /\ mod_log[2].op = "initialize"
    /\ mod_log[1].form = "list" /\ mod_log[1].result = "ok"
    /\ mod_log[2].form = "string" /\ mod_log[2].result = "already"
    /\ command_line = <<" ", "a.py", " ", "-x">>
    /\ n_init = 1 /\ n_set_mpi = 1

\* C12: omnitrace_finalize is invoked at most once; the first finalize call
\* sets is_finalized(), every later one raises without invoking the finalizer
C12_FinalizeOneShot ==
    /\ [](n_finalize <= 1)
    /\ [][(ModCallStep /\ Last(mod_log').op = "finalize")
             => IF FinalizeCalls = {}
                THEN /\ Last(mod_log').result = "ok"
                     /\ is_finalized'
                     /\ n_finalize' = n_finalize + 1
                ELSE /\ Last(mod_log').result = "already"
                     /\ n_finalize' = n_finalize
                     /\ is_finalized /\ is_finalized']_vars

\* three finalize calls, one finalizer invocation
C12_Witness ==
    /\ Cardinality(FinalizeCalls) = MaxModCalls
    /\ mod_log[1].result = "ok"
    /\ mod_log[2].result = "already"
    /\ mod_log[3].result = "already"
    /\ n_finalize = 1
    /\ is_finalized

\* C13: with OMNITRACE_INIT_TOOLING false, OnLoad returns true and does
\* nothing: no closure is registered, the external initializer is not invoked,
\* the clock skew is not computed, the telemetry state is unchanged and no
\* setup closure is executed
C13_OnLoadNoOpWithoutTooling ==
    [][(OnLoadStep /\ ~onload_tooling')
          => /\ onload_ret' = "true"
             /\ UNCHANGED <<setup_routines, shutdown_routines, n_init_tooling,
                            skew_computed, telemetry, setup_log, state,
                            sampling_stack>>]_vars

\* OnLoad has returned from its first line, everything is as before the call
C13_Witness ==
    /\ n_onload = 1
    /\ ~onload_tooling
    /\ onload_ret = "true"
    /\ setup_routines = <<>>
    /\ telemetry # "Active"

\* C14: with OMNITRACE_INIT_TOOLING true, OnLoad returns true on every path:
\* a failure of the runtime registration in the "hsa" setup closure is reported
\* by the closure, does not leave OnLoad as an exception, and the child-thread
\* sampling setting is restored
C14_OnLoadReturnsTrue ==
    [][(OnLoadStep /\ onload_tooling')
          => /\ onload_ret' = "true"
             /\ sampling_stack' = sampling_stack
             /\ Len(setup_log') > Len(setup_log)
             /\ \A i \in DOMAIN setup_log' : setup_log'[i] \in {"enabled", "reported"}
             /\ telemetry' = "Active"]_vars

\* the registration failed in the closure and OnLoad returned true
C14_Witness ==
    /\ n_onload = 1
    /\ onload_tooling
    /\ setup_log = <<"reported">>
    /\ onload_ret = "true"
    /\ sampling_stack = <<>>

\* C15: after OnLoad, finalize, OnUnload every further OnUnload leaves the
\* telemetry state alone and does not invoke the external finalizer again
C15_FurtherUnloadIsNoOp ==
    [][(OnUnloadStep /\ n_unload >= 1
          /\ unload_log[1].loaded /\ unload_log[1].finalized
          /\ \E i \in FinalizeCalls : mod_log[i].result = "ok" /\ mod_log[i].loaded)
          => /\ telemetry' = telemetry
             /\ n_finalize_hidden' = n_finalize_hidden]_vars

(* ----------------------- the interpreter's filters -------------------- *)
Ev(what, name) == [what |-> what, name |-> name]
Push(label) == [kind |-> "push", label |-> label]
Pop(label) == [kind |-> "pop", label |-> label]
Depth(t) == config[t].ignore_stack_depth
\* the hook of thread t was invoked by the interpreter (not from inside itself)
EventStep(t) == Len(ev_log'[t]) = Len(ev_log[t]) + 1
\* the hook of thread t was invoked while it was executing
NestedStep(t) == nnested'[t] = nnested[t] + 1

\* C16: if exclude_functions contains ^.*$ and include_functions and
\* include_filenames are empty, no push_region and no pop_region is emitted,
\* whatever the other fields (restrict_functions among them) are
C16_ExcludeAllNoEvents ==
    \A t \in PyThreads :
        ("^.*$" \in config[t].exclude_functions
            /\ config[t].include_functions = {}
            /\ config[t].include_filenames = {})
        => region_events[t] = <<>>

\* a frame whose CALL starts a skipped subtree: its name matches
\* exclude_functions without being forced, and is not in the default set
CustomExcluded(cfg, code) ==
    /\ cfg.restrict_functions = {}
    /\ ~(\E e \in cfg.include_functions : regex_search(code.name, e))
    /\ \E e \in cfg.exclude_functions : regex_search(code.name, e)
    /\ ~(\E e \in default_exclude_functions : regex_search(code.name, e))

\* the number of open frames of the skipped subtree
SkipDepth(t) ==
    LET I == {i \in DOMAIN frames[t] : CustomExcluded(config[t], frames[t][i])}
    IN  IF I = {} THEN 0
        ELSE Len(frames[t]) + 1 - (CHOOSE i \in I : \A j \in I : i <= j)

NoEventWhileSkipping ==
    \A t \in PyThreads : Depth(t) > 0 => region_events'[t] = region_events[t]

CallRecordedAtDepthZero ==
    \A t \in PyThreads :
        (EventStep(t) /\ Depth(t) = 0 /\ pf_pc'[t] = "idle"
            /\ Last(ev_log'[t]).what = "call" /\ frames'[t] # frames[t]
            /\ PfFilter(config[t], omnitrace_path'.value, Last(frames'[t]), "call").exit
                  = "label")
        => region_events'[t] =
              Append(region_events[t],
                     Push(get_label(config[t], Last(frames'[t]), "call", "")))

\* C17 as stated: nothing is emitted while a subtree is skipped, nothing is
\* emitted between the RETURN that brought ignore_stack_depth to 0 and the
\* next CALL, and that CALL is recorded if it passes the filters
C17_NothingUntilNextCall ==
    /\ [][NoEventWhileSkipping]_vars
    /\ [][\A t \in PyThreads :
            (EventStep(t) /\ Depth(t) = 0 /\ last_exit[t] = "ignore_stack"
                /\ Last(ev_log'[t]).what # "call")
            => region_events'[t] = region_events[t]]_vars
    /\ [][CallRecordedAtDepthZero]_vars

\* C17: ignore_stack_depth counts the open frames of the skipped subtree;
\* while it is positive no region event is emitted, and once it is 0 again
\* events are handled as before the skip: a CALL that passes the filters is
\* recorded (a RETURN of a frame recorded before the skip is popped)
C17_SkipCoversSubtree ==
    /\ [](\A t \in PyThreads : Depth(t) = SkipDepth(t))
    /\ [][NoEventWhileSkipping]_vars
    /\ [][CallRecordedAtDepthZero]_vars

\* g was skipped with its callee f, then f was called again and recorded
C17_Witness ==
    /\ "^g$" \in config[0].exclude_functions
    /\ ~NeedsArgs(config[0])
    /\ ev_log[0] = <<Ev("call", "g"), Ev("call", "f"), Ev("return", "f"),
                     Ev("return", "g"), Ev("call", "f")>>
    /\ Depth(0) = 0
    /\ region_events[0] = <<Push(<<"f">>)>>

\* the fields of a configuration that the run does not change
Settings(cfg) ==
    [cfg EXCEPT !.ignore_stack_depth = 0, !.records = <<>>, !.base_module_path = "",
                !.is_running = FALSE, !.base_stack_depth = -1]

\* thread t ran, from the default configuration, a program whose f calls g
RanFCallsG(t) ==
    /\ Settings(config[t]) = DefaultConfig
    /\ config[t].base_module_path = OmniPath
    /\ pf_pc[t] = "idle"
    /\ ev_log[t] = <<Ev("call", "f"), Ev("call", "g"), Ev("return", "g"),
                     Ev("return", "f")>>

\* the label name[file:line] of the frame's CALL, with the base name or the
\* full path for the file
Located(code) ==
    {<<code.name, "[", file, ":", ToString(code.line), "]">> :
        file \in {code.file, Basename(code.file)}}

CodeOf(name) == CHOOSE c \in Codes : c.name = name

\* C18 as stated: with the default configuration the events are
\* push f[file:L1], push g[file:L2], pop g, pop f
C18_LabelsCarryFileAndLine ==
    \A t \in PyThreads :
        RanFCallsG(t) =>
            \E lf \in Located(CodeOf("f")), lg \in Located(CodeOf("g")) :
                region_events[t] = <<Push(lf), Push(lg), Pop(lg), Pop(lf)>>

\* C18: with the default configuration (include_filename and include_line are
\* false) the events are push f, push g, pop g, pop f in that order, each
\* label being the bare function name
C18_LabelsAreBareNames ==
    \A t \in PyThreads :
        RanFCallsG(t) =>
            region_events[t] = <<Push(<<"f">>), Push(<<"g">>), Pop(<<"g">>),
                                 Pop(<<"f">>)>>

C18_Witness ==
    /\ RanFCallsG(0)
    /\ Len(region_events[0]) = 4

\* C19: an invocation of profiler_function made while the guard of the thread
\* is set returns at once: no region event, ignore_stack_depth and the
\* pop-closure stack unchanged; the outer CALL and its RETURN give exactly one
\* push/pop pair
C19_NestedShortCircuits ==
    /\ [][\A t \in PyThreads :
            NestedStep(t) => /\ disable[t]
                             /\ region_events'[t] = region_events[t]
                             /\ config'[t] = config[t]]_vars
    /\ [](\A t \in PyThreads :
            (hook_on[t] /\ pf_pc[t] = "idle" /\ config[t].include_args
                /\ ev_log[t] = <<Ev("call", "f"), Ev("return", "f")>>
                /\ Settings(config[t]).exclude_functions = default_exclude_functions
                /\ config[t].restrict_functions = {})
            => \E l \in {<<"f", "(x=1)">>, <<"f", "">>} :
                  region_events[t] = <<Push(l), Pop(l)>>)

\* f was called and returned with its arguments formatted, and an event of a
\* __repr__ reached the hook meanwhile
C19_Witness ==
    /\ config[0].include_args
    /\ ev_log[0] = <<Ev("call", "f"), Ev("return", "f")>>
    /\ nnested[0] = MaxNested
    /\ region_events[0] = <<Push(<<"f", "(x=1)">>), Pop(<<"f", "(x=1)">>)>>

(* ------------------------ the threads' configurations ------------------ *)
\* the fields get_config() copies from the master
CopiedFields ==
    {"is_running", "trace_c", "include_internal", "include_args", "include_line",
     "include_filename", "full_filepath", "base_module_path", "restrict_functions",
     "restrict_filenames", "include_functions", "include_filenames",
     "exclude_functions", "exclude_filenames", "verbose"}

\* C20 as stated: what a thread observes or snapshots never depends on the
\* writes of another thread: every field it has not written itself has the
\* value of a fresh configuration
C20_SnapshotFreeOfOthersWrites ==
    \A B \in CfgThreads :
        HasConfig(B) =>
            \A f \in CopiedFields \ cfg_own[B] : config[B][f] = DefaultConfig[f]

\* C20: once a thread has made its first access, no write of another thread
\* changes its configuration; the snapshot it starts from holds the writes
\* the owner of the master made before (or during) that first access
C20_IsolatedAfterFirstAccess ==
    [][\A B \in CfgThreads :
          (HasConfig(B) /\ cfg_actor' # B) => config'[B] = config[B]]_vars

\* thread 1 started from a snapshot that holds thread 0's include_args, and
\* does not see the regex thread 0 added afterwards
C20_Witness ==
    /\ cfg_obj = (0 :> "master" @@ 1 :> "own")
    /\ cfg_pc[1] = "idle"
    /\ config[1].include_args /\ "include_args" \notin cfg_own[1]
    /\ "^g$" \in config[0].exclude_functions
    /\ "^g$" \notin config[1].exclude_functions
    /\ cfg_actor = 0

(* ------------------- the host-API callback, continued ------------------ *)
\* the closures that have been executed
ExecutedIds == {executed[i].id : i \in 1..Len(executed)}

\* C23: in the EXIT phase every closure that was in the thread's queue when the
\* callback was entered has been executed when the END events are emitted; in
\* the ENTER phase the drain starts only after the BEGIN event is emitted and
\* the causal triple is stored
C23_DrainBeforeEnd ==
    \A t \in AppThreads :
        /\ pc[t] = "exit_tail" => drain_entry[t] \subseteq ExecutedIds
        /\ (pc[t] \in {"exec_lock", "exec_run"} /\ cur[t].phase = "ENTER") =>
              /\ cur[t].corr \in DOMAIN cid_data
              /\ use_perfetto =>
                    \E i \in 1..Len(host_events) :
                        /\ host_events[i].kind = "BEGIN"
                        /\ host_events[i].corr = cur[t].corr

\* an EXIT invocation that found a closure queued has drained it and is about
\* to emit its END events
C23_Witness ==
    \E t \in AppThreads :
        /\ pc[t] = "exit_tail"
        /\ drain_entry[t] # {}
        /\ drain_entry[t] \subseteq ExecutedIds

(* =================== the host callbacks on their own =================== *)
\* the values the system's real-time clock may be set to
ClockValues == {0}

\* comp::wall_clock::record() reads the real-time clock, which may be set
\* backwards between two reads
ClockStep(v) ==
    /\ v < now
    /\ now' = v
    /\ UNCHANGED <<state, telemetry, unload_pc, use_perfetto, use_timemory,
                   use_critical_trace, use_rocm_smi, clock_skew, next_corr,
                   key_data, tid_data, cid_data, next_cid, calls, pc, cur,
                   hip_activity_callbacks, hip_activity_mutex, wpc, wleft, wpend,
                   ndelivered, nrec, nclosure, host_events, device_events,
                   critical_trace, executed, records_seen, raised>>
    /\ UNCHANGED <<pyvars, lifevars, cfgvars, extvars>>

\* the ENTER invocation of a host call that carries a correlation id the
\* callback has seen before
HipApiEnterAgain(t, api, kname, stream, corr) ==
    /\ corr < next_corr
    /\ next_cid <= MaxCid
    /\ HipApiEnterCorr(t, api, kname, stream, corr)
    /\ UNCHANGED next_corr

\* an ENTER invocation of hip_api_callback on a thread on which an invocation
\* is executing (between its statements, no mutex held): the function has no
\* guard, the invocation does the whole work of the ENTER branch, drain included
HipApiNested(t, api, kname, stream) ==
    /\ pc[t] \in {"exec_lock", "exit_tail"}
    /\ hip_activity_mutex[t] = {}
    /\ n_nested_api < MaxNestedApi
    /\ next_cid <= MaxCid
    /\ (api = "hipLaunchKernel" <=> kname # NULL)
    /\ n_nested_api' = n_nested_api + 1
    /\ next_corr' = next_corr + 1
    /\ IF Inactive \/ FilteredApi(api)
       THEN UNCHANGED <<now, key_data, tid_data, cid_data, next_cid, host_events,
                        critical_trace, executed, hip_activity_callbacks, bundlevars>>
       ELSE /\ EnterWork(t, api, kname, stream, next_corr)
            /\ executed' = executed \o
                 [i \in 1..Len(hip_activity_callbacks[t]) |->
                     [RunAll(hip_activity_callbacks[t], t, t)[i]
                         EXCEPT !.locked = t \in HeldAfterLock(t)]]
            /\ hip_activity_callbacks' = [hip_activity_callbacks EXCEPT ![t] = <<>>]
    /\ UNCHANGED <<state, telemetry, unload_pc, use_perfetto, use_timemory,
                   use_critical_trace, use_rocm_smi, clock_skew, calls, pc, cur,
                   hip_activity_mutex, wpc, wleft, wpend, ndelivered, nrec, nclosure,
                   device_events, records_seen, raised>>
    /\ UNCHANGED <<drain_entry, begin_timestamp, hsa_calls, hsa_events, hsa_tasks, n_hsa>>
    /\ UNCHANGED <<pyvars, lifevars, cfgvars, syncvars>>

(* -------------------------- hsa_api_callback -------------------------- *)
\* the mark of a call whose ENTER invocation recorded no timestamp
NoTimestamp == -1

HsaCids == {"hsa_shut_down", "hsa_queue_create"}

\* the ids of the switch that leave without any work
HsaFiltered(cid) == cid = "hsa_shut_down"

\* if(begin_timestamp > end_timestamp) return;
HsaInverted(begin, end) == begin > end

HsaApiCallback(t, cid, phase) ==
    /\ pc[t] = "idle"
    /\ IF phase = "ENTER"
       THEN /\ Len(hsa_calls[t]) < MaxHsaDepth
            /\ n_hsa < MaxHsa
            /\ hsa_calls' = [hsa_calls EXCEPT ![t] =
                              Append(@, [cid |-> cid,
                                         ts |-> IF Inactive \/ HsaFiltered(cid)
                                                THEN NoTimestamp ELSE now])]
            /\ n_hsa' = n_hsa + 1
       ELSE /\ hsa_calls[t] # <<>>
            /\ Last(hsa_calls[t]).cid = cid
            /\ hsa_calls' = [hsa_calls EXCEPT ![t] = ButLast(@)]
            /\ UNCHANGED n_hsa
    /\ IF Inactive \/ HsaFiltered(cid)
       THEN UNCHANGED <<now, begin_timestamp, hsa_events, hsa_tasks>>
       ELSE IF phase = "ENTER"
            THEN /\ begin_timestamp' = [begin_timestamp EXCEPT ![t] = now]
                 /\ now' = now + 1
                 /\ UNCHANGED <<hsa_events, hsa_tasks>>
            ELSE LET end_timestamp ==
                        IF cid = "hsa_shut_down" THEN begin_timestamp[t] ELSE now
                 IN  /\ now' = IF cid = "hsa_shut_down" THEN now ELSE now + 1
                     /\ UNCHANGED begin_timestamp
                     /\ IF HsaInverted(begin_timestamp[t], end_timestamp)
                        THEN UNCHANGED <<hsa_events, hsa_tasks>>
                        ELSE /\ hsa_events' =
                                  IF use_perfetto
                                  THEN Append(hsa_events,
                                         [name |-> cid, thr |-> t,
                                          beg |-> begin_timestamp[t],
                                          end |-> end_timestamp,
                                          enter |-> Last(hsa_calls[t]).ts])
                                  ELSE hsa_events
                             /\ hsa_tasks' =
                                  IF use_timemory
                                  THEN Append(hsa_tasks,
                                         [name |-> cid,
                                          value |-> end_timestamp - begin_timestamp[t]])
                                  ELSE hsa_tasks
    /\ UNCHANGED <<state, telemetry, unload_pc, use_perfetto, use_timemory,
                   use_critical_trace, use_rocm_smi, clock_skew, next_corr,
                   key_data, tid_data, cid_data, next_cid, calls, pc, cur,
                   hip_activity_callbacks, hip_activity_mutex, wpc, wleft, wpend,
                   ndelivered, nrec, nclosure, host_events, device_events,
                   critical_trace, executed, records_seen, raised>>
    /\ UNCHANGED <<drain_entry, n_nested_api>>
    /\ UNCHANGED <<pyvars, lifevars, cfgvars, syncvars, bundlevars>>

\* an HSA call of a thread that makes no other HSA call at the same time
HsaApiFlat(t, cid, phase) ==
    /\ phase = "ENTER" => hsa_calls[t] = <<>> /\ n_hsa < MaxHsaHost
    /\ HsaApiCallback(t, cid, phase)

\* the host callbacks of one application thread with every sink enabled, no
\* device activity, a settable clock
HostInit == HipIdle /\ PyIdle /\ LifeStart /\ command_line = <<>>

HostNext ==
    \/ \E t \in AppThreads, api \in Apis, kname \in KernelNames \cup {NULL},
          stream \in Streams : HipApiEnter(t, api, kname, stream)
    \/ \E t \in AppThreads, api \in Apis, kname \in KernelNames \cup {NULL},
          stream \in Streams : HipApiNested(t, api, kname, stream)
    \/ \E t \in AppThreads : HipApiExit(t)
    \/ \E t \in AppThreads : HipApiExitTail(t)
    \/ \E t \in AppThreads : HipExecLock(t)
    \/ \E t \in AppThreads : HipExecClear(t)
    \/ \E v \in ClockValues : ClockStep(v)
    \/ \E t \in AppThreads, cid \in HsaCids, phase \in {"ENTER", "EXIT"} :
          HsaApiFlat(t, cid, phase)
    \/ OnLoad(TRUE, FALSE, FALSE)

HostSpec == HostInit /\ [][HostNext]_vars

\* the HSA callback alone, on two threads, with nested calls and a settable
\* clock
HsaNext ==
    \/ \E t \in HostThreads, cid \in HsaCids, phase \in {"ENTER", "EXIT"} :
          HsaApiCallback(t, cid, phase)
    \/ \E v \in ClockValues : ClockStep(v)
    \/ OnLoad(TRUE, FALSE, FALSE)

HsaSpec == HostInit /\ [][HsaNext]_vars

\* the host callbacks of two application threads, the runtime handing over
\* correlation ids it has used before
RegistryInit == HipIdle /\ PyIdle /\ LifeStart /\ command_line = <<>>

RegistryNext ==
    \/ \E t \in HostThreads, kname \in KernelNames, stream \in Streams :
          HipApiEnter(t, "hipLaunchKernel", kname, stream)
    \/ \E t \in HostThreads, kname \in KernelNames, stream \in Streams,
          corr \in 1..MaxCorr :
             HipApiEnterAgain(t, "hipLaunchKernel", kname, stream, corr)
    \/ \E t \in HostThreads : HipApiExit(t)
    \/ \E t \in HostThreads : HipApiExitTail(t)
    \/ \E t \in HostThreads : HipExecLock(t)
    \/ \E t \in HostThreads : HipExecClear(t)
    \/ OnLoad(TRUE, FALSE, FALSE)

RegistrySpec == RegistryInit /\ [][RegistryNext]_vars

\* the BEGIN events of a causal-chain id
BeginsOfCid(c) ==
    {i \in DOMAIN host_events :
        host_events[i].kind = "BEGIN" /\ host_events[i].cid = c}

\* C21: no host-API span with a begin timestamp greater than its end timestamp
\* reaches a sink, neither from hsa_api_callback nor from hip_api_callback
C21_NoInvertedSpan ==
    /\ \A i \in DOMAIN hsa_events : hsa_events[i].beg <= hsa_events[i].end
    /\ \A i \in DOMAIN hsa_tasks : hsa_tasks[i].value >= 0
    /\ \A j \in DOMAIN host_events :
          host_events[j].kind = "END" =>
             \A i \in BeginsOfCid(host_events[j].cid) :
                 host_events[i].ts <= host_events[j].ts

\* the registry entries that are new after a step
NewEntries == DOMAIN cid_data' \ DOMAIN cid_data

\* C25: an entry of key_data, tid_data or cid_data is never removed and never
\* changed, also not by a later ENTER with the same correlation id on the same
\* or another thread; an entry is written by the thread that issued the call
C25_EntriesAreFinal ==
    [][/\ \A c \in DOMAIN key_data :
             c \in DOMAIN key_data' /\ key_data'[c] = key_data[c]
       /\ \A c \in DOMAIN tid_data :
             c \in DOMAIN tid_data' /\ tid_data'[c] = tid_data[c]
       /\ \A c \in DOMAIN cid_data :
             c \in DOMAIN cid_data' /\ cid_data'[c] = cid_data[c]
       /\ \A c \in NewEntries :
             /\ Len(host_events') = Len(host_events) + 1
             /\ Last(host_events').corr = c
             /\ Last(host_events').cid = cid_data'[c][1]
             /\ c \in DOMAIN tid_data' => tid_data'[c] = Last(host_events').thr]_vars

\* two ENTER invocations for one correlation id have come from two threads, the
\* registry holds what the first one stored
C25_Witness ==
    \E i, j \in DOMAIN host_events :
        /\ i < j
        /\ host_events[i].kind = "BEGIN" /\ host_events[j].kind = "BEGIN"
        /\ host_events[i].corr = host_events[j].corr
        /\ host_events[i].thr # host_events[j].thr
        /\ host_events[i].corr \in DOMAIN tid_data
        /\ tid_data[host_events[i].corr] = host_events[i].thr
        /\ cid_data[host_events[i].corr][1] = host_events[i].cid

\* C27: an invocation of hip_api_callback on a thread on which an invocation is
\* still executing returns at once: no event, no causal-chain id, no registry
\* write, no drain
C27_NestedReturnsAtOnce ==
    [][n_nested_api' # n_nested_api =>
          /\ UNCHANGED <<host_events, critical_trace, next_cid>>
          /\ UNCHANGED <<key_data, tid_data, cid_data>>
          /\ UNCHANGED <<hip_activity_callbacks, executed>>]_vars

(* ================== the filter of profiler_function ==================== *)
\* profiler_function called with any frame and any supported event name: the
\* hook is a function of the module, callable before profiler_init and in the
\* middle of a call stack
PfEvent(t, code, swhat) ==
    /\ hook_on[t]
    /\ pf_pc[t] = "idle"
    /\ nevents[t] < MaxFilterEvents
    /\ nevents' = [nevents EXCEPT ![t] = @ + 1]
    /\ profiler_function(t, code, swhat)
    /\ ev_log' = [ev_log EXCEPT ![t] = Append(@, [what |-> swhat, name |-> code.name])]
    /\ UNCHANGED <<frames, in_c, nnested, hipvars, lifevars, cfgvars, extvars>>

FilterInit ==
    /\ config \in {[t \in CfgThreads |-> IF t \in PyThreads THEN c ELSE DefaultConfig] :
                     c \in FilterConfigs}
    /\ PyStart /\ CfgAccessed /\ HipIdle /\ LifeStart /\ command_line = <<>>

FilterNext ==
    \/ \E t \in PyThreads, code \in Codes,
          swhat \in {"call", "return", "c_call", "c_return"} : PfEvent(t, code, swhat)
    \/ \E t \in PyThreads : profiler_init(t)
    \/ \E t \in PyThreads : profiler_finalize(t)

FilterSpec == FilterInit /\ [][FilterNext]_vars

\* the change of ignore_stack_depth the exclusion of a name makes
ExcludeDelta(name, what) ==
    IF \E e \in default_exclude_functions : regex_search(name, e) THEN 0
    ELSE IF what = "call" THEN 1
    ELSE IF what = "return" THEN -1
    ELSE 0

\* C28: at ignore_stack_depth 0 an event whose name fails a non-empty
\* restrict_functions is skipped and leaves the depth alone; an event whose
\* name matches exclude_functions and is not forced is skipped and changes the
\* depth by +1 (CALL) or -1 (RETURN) only when the name is outside the default
\* exclude set; C_CALL and C_RETURN never change the depth
C28_FunctionFilters ==
    [][\A t \in PyThreads :
         EventStep(t) =>
            LET cfg  == config[t]
                e    == Last(ev_log'[t])
                isC  == e.what \in {"c_call", "c_return"}
                here == Depth(t) = 0 /\ (isC => cfg.trace_c)
                only == cfg.restrict_functions # {}
                inR  == \E r \in cfg.restrict_functions : regex_search(e.name, r)
                inI  == \E r \in cfg.include_functions : regex_search(e.name, r)
                inX  == \E r \in cfg.exclude_functions : regex_search(e.name, r)
            IN  /\ (here /\ only /\ ~inR) =>
                      /\ last_exit'[t] = "restrict_functions"
                      /\ Depth(t)' = Depth(t)
                      /\ region_events'[t] = region_events[t]
                /\ (here /\ ~only /\ ~inI /\ inX) =>
                      /\ last_exit'[t] = "exclude_functions"
                      /\ Depth(t)' = Depth(t) + ExcludeDelta(e.name, e.what)
                      /\ region_events'[t] = region_events[t]
                /\ isC => Depth(t)' = Depth(t)]_vars

\* the RETURN of a function excluded by a custom expression arrived at depth 0
C28_Witness ==
    \E t \in PyThreads :
        /\ last_exit[t] = "exclude_functions"
        /\ Depth(t) = -1
        /\ Last(ev_log[t]) = Ev("return", "g")

\* C29: with include_internal false the internal-path step skips an event only
\* when the frame's file starts with the installation prefix, before and after
\* profiler_init
C29_InternalSkipsOnlyInternal ==
    \A t \in PyThreads :
        last_exit[t] = "internal" =>
            IsInternalPath(CodeOf(Last(ev_log[t]).name).file, OmniPath)

\* C31: a RETURN or C_RETURN that reaches the return handler finds a pop
\* closure in config.records: the handler never takes the back of an empty
\* vector, so no invocation crashes or throws there
C31_ReturnFindsRecord ==
    \A t \in PyThreads :
        /\ pf_pc[t] # "crashed"
        /\ last_exit[t] \notin {"crash", "exception"}

\* C32: ignore_stack_depth is never negative
C32_DepthNeverNegative == \A t \in PyThreads : Depth(t) >= 0

\* the regions of thread t that were pushed and not popped
OpenRegions(t) ==
    Cardinality({i \in DOMAIN region_events[t] : region_events[t][i].kind = "push"})
    - Cardinality({i \in DOMAIN region_events[t] : region_events[t][i].kind = "pop"})

\* C38: when profiler_finalize returns (and when a profiler_init that starts
\* the profiler returns) every region pushed on the thread has been popped
C38_FinalizePopsAll ==
    [][\A t \in PyThreads :
          config'[t].is_running # config[t].is_running => OpenRegions(t)' = 0]_vars

\* the number of executions of closure k
Executions(k) == Cardinality({i \in DOMAIN executed : executed[i].id = k})

\* the number of queue slots that hold closure k
Slots(k) ==
    Cardinality({<<t, i>> \in Threads \X (1..MaxRec) :
                    i <= Len(hip_activity_callbacks[t])
                    /\ hip_activity_callbacks[t][i].id = k})

\* C33: under every interleaving of the workers' appends and the origin
\* thread's drains every appended closure is executed at most once and none
\* is discarded unexecuted: a closure is in at most one queue slot, one that is
\* in no queue any more has been executed, and one that was executed is in a
\* queue only while the drain that executed it still runs
C33_OnceAndNeverLost ==
    \A k \in 1..nclosure :
        /\ Executions(k) <= 1
        /\ Slots(k) <= 1
        /\ Slots(k) = 0 => Executions(k) = 1
        /\ (Slots(k) = 1 /\ Executions(k) = 1) =>
              \E t \in AppThreads : pc[t] = "exec_run" /\ k \in QueuedIds(t)

\* an append that waited for a drain of the same queue: the drain has executed
\* the older closure and is over, the newer closure is queued and not executed
C33_Witness ==
    \E t \in AppThreads : \E k \in 1..nclosure : \E j \in 1..nclosure :
        /\ pc[t] # "exec_run"
        /\ k < j
        /\ \E i \in DOMAIN executed : executed[i].id = k /\ executed[i].by = t
        /\ j \in QueuedIds(t)
        /\ Executions(j) = 0

\* C34: the skew correction keeps the order of a record's timestamps: the
\* span of a record with begin_ns < end_ns has corrected end > corrected
\* begin, the sums being taken in the unsigned width of the timestamps
C34_SkewKeepsOrder ==
    \A i \in DOMAIN device_events :
        LET r == records_seen[device_events[i].rec]
        IN  r.begin_ns < r.end_ns => device_events[i].end > device_events[i].beg

\* C35: the span hsa_api_callback emits at the EXIT of a call begins at the
\* timestamp recorded at the ENTER of that same call, also for HSA calls
\* nested on one thread and with filtered ids in between
C35_SpanBeginsAtOwnEnter ==
    \A i \in DOMAIN hsa_events :
        hsa_events[i].enter # NoTimestamp =>
            hsa_events[i].beg = hsa_events[i].enter

\* C36: with the statistical sink enabled a timing bundle is stopped and
\* erased only from a per-thread bundle map that contains the correlation id:
\* the search of the EXIT phase over the other threads' maps erases only where
\* the id is found, and stops and erases nothing if no map contains it
C36_StopOnlyWhereFound ==
    \A i \in DOMAIN bundle_stops : bundle_stops[i].found

\* the elements of a list
ListElements(l) == {l[i] : i \in DOMAIN l}

\* C37: assigning a list to a regex-set property only adds: the set afterwards
\* is the previous set united with the list's elements (so the empty list and
\* the current value change nothing), no step of any operation removes an
\* element, and the default exclude patterns stay in the set
C37_AssignmentOnlyAdds ==
    /\ [](\A t \in CfgThreads :
            default_exclude_functions \subseteq config[t].exclude_functions)
    /\ [][\A t \in CfgThreads : \A f \in StrsetFields :
            (cfg_ops' # cfg_ops /\ cfg_last'.field = f /\ cfg_actor' = t) =>
                config'[t][f] = config[t][f] \cup ListElements(cfg_last'.list)]_vars
    /\ [][\A t \in CfgThreads : \A f \in StrsetFields :
            config[t][f] \subseteq config'[t][f]]_vars

\* a regex added by an earlier assignment is still in the set after the
\* assignment of a list without it
C37_Witness ==
    /\ cfg_last.field = "exclude_functions"
    /\ "^g$" \notin ListElements(cfg_last.list)
    /\ "^g$" \in config[cfg_actor].exclude_functions

\* the calls of initialize that ended with an exception raised after the
\* already-initialized check
FailedInitializeCalls == {i \in InitializeCalls : mod_log[i].result = "error"}

\* C39: a call of initialize that fails after the already-initialized check
\* leaves the module state unchanged: is_initialized() is still false, and the
\* next call of initialize is accepted
C39_FailedInitializeLeavesNoTrace ==
    /\ (mod_log # <<>> /\ Len(mod_log) \in FailedInitializeCalls) => ~is_initialized
    /\ \A i \in FailedInitializeCalls : \A j \in InitializeCalls :
          j = i + 1 => mod_log[j].result # "already"

\* C40: is_finalized() implies is_initialized() in every reachable state, and
\* no call of initialize is accepted after a successful finalize
C40_FinalizedImpliesInitialized ==
    /\ is_finalized => is_initialized
    /\ \A i \in FinalizeCalls : \A j \in InitializeCalls :
          (i < j /\ mod_log[i].result = "ok") => mod_log[j].result = "already"

(* ============ the mutexes and the statics of the callbacks ============= *)
\* tim::type_mutex<key_data_mutex_t>(), tim::type_mutex<cid_data_mutex_t>(),
\* get_hip_activity_mutex(_tid)
KeyMutex == <<"key", 0>>
CidMutex == <<"cid", 0>>
QueueMutex(tid) == <<"queue", tid>>

Acquire(m) == [op |-> "acquire", on |-> m]
Release(m) == [op |-> "release", on |-> m]
Access(o) == [op |-> "access", on |-> o]

\* the object a worker reaches through the name of a function static: the
\* declarations are "static auto", one object for all threads
StaticInstance(name, w) == <<name, 0>>

\* hip_exec_activity_callbacks(_tid): the queue's mutex is held for the loop
DrainScript(tid) == <<Acquire(QueueMutex(tid)), Release(QueueMutex(tid))>>

\* an ENTER branch that keeps each lock until the end of the branch
EnterScriptNested(t, named) ==
    (IF named THEN <<Acquire(KeyMutex)>> ELSE <<>>)
    \o <<Acquire(CidMutex), Acquire(QueueMutex(t)), Release(QueueMutex(t)),
         Release(CidMutex)>>
    \o (IF named THEN <<Release(KeyMutex)>> ELSE <<>>)

\* the ENTER branch of hip_api_callback: the key mutex in its own scope when a
\* kernel name was resolved, the cid mutex in its own scope, then the drain
EnterScript(t, named) ==
    (IF named /\ (use_perfetto \/ use_timemory \/ use_rocm_smi)
     THEN <<Acquire(KeyMutex), Release(KeyMutex)>> ELSE <<>>)
    \o <<Acquire(CidMutex), Release(CidMutex)>>
    \o DrainScript(t)

\* the EXIT branch: the drain first, then the cid mutex for the lookup
ExitScript(t) == DrainScript(t) \o <<Acquire(CidMutex), Release(CidMutex)>>

\* one iteration of hip_activity_callback's loop for a record that is not
\* skipped: the counter, the lookup under the key mutex, the lookup under the
\* cid mutex, the name cache, the append under the origin thread's queue mutex
RecordScript(w, tid, found) ==
    <<Access(StaticInstance("_indexes", w))>>
    \o <<Acquire(KeyMutex), Release(KeyMutex)>>
    \o (IF use_critical_trace \/ use_rocm_smi
        THEN <<Acquire(CidMutex), Release(CidMutex)>> ELSE <<>>)
    \o (IF use_perfetto THEN <<Access(StaticInstance("_kernel_names", w))>> ELSE <<>>)
    \o (IF found /\ use_timemory
        THEN <<Acquire(QueueMutex(tid)), Release(QueueMutex(tid))>> ELSE <<>>)

\* no thread holds the mutex
Free(m) == \A u \in SyncThreads : m \notin sy_held[u]

SyUnchanged ==
    /\ UNCHANGED <<hipvars, pyvars, lifevars, cfgvars, drain_entry, hostvars, bundlevars>>

\* the runtime invokes hip_api_callback with phase ENTER on thread t
SyHipEnter(t, named) ==
    /\ sy_script[t] = <<>>
    /\ sy_calls[t] = 0
    /\ sy_script' = [sy_script EXCEPT ![t] = EnterScript(t, named)]
    /\ sy_calls' = [sy_calls EXCEPT ![t] = 1]
    /\ UNCHANGED <<sy_held, sy_recs, sy_users>>
    /\ SyUnchanged

\* the runtime invokes hip_api_callback with phase EXIT on thread t
SyHipExit(t) ==
    /\ sy_script[t] = <<>>
    /\ sy_calls[t] = 1
    /\ sy_script' = [sy_script EXCEPT ![t] = ExitScript(t)]
    /\ sy_calls' = [sy_calls EXCEPT ![t] = 2]
    /\ UNCHANGED <<sy_held, sy_recs, sy_users>>
    /\ SyUnchanged

\* worker w takes up a record whose correlation id belongs to thread tid
SyActivity(w, tid, found) ==
    /\ sy_script[w] = <<>>
    /\ sy_recs[w] < MaxSyncRecs
    /\ sy_script' = [sy_script EXCEPT ![w] = RecordScript(w, tid, found)]
    /\ sy_recs' = [sy_recs EXCEPT ![w] = @ + 1]
    /\ UNCHANGED <<sy_held, sy_calls, sy_users>>
    /\ SyUnchanged

\* the constructor of an auto_lock_t: blocks until the mutex is free
SyAcquire(t) ==
    /\ sy_script[t] # <<>>
    /\ Head(sy_script[t]).op = "acquire"
    /\ Free(Head(sy_script[t]).on)
    /\ sy_held' = [sy_held EXCEPT ![t] = @ \cup {Head(sy_script[t]).on}]
    /\ sy_script' = [sy_script EXCEPT ![t] = Tail(@)]
    /\ UNCHANGED <<sy_calls, sy_recs, sy_users>>
    /\ SyUnchanged

\* the end of the scope of an auto_lock_t
SyRelease(t) ==
    /\ sy_script[t] # <<>>
    /\ Head(sy_script[t]).op = "release"
    /\ sy_held' = [sy_held EXCEPT ![t] = @ \ {Head(sy_script[t]).on}]
    /\ sy_script' = [sy_script EXCEPT ![t] = Tail(@)]
    /\ UNCHANGED <<sy_calls, sy_recs, sy_users>>
    /\ SyUnchanged

\* _indexes[_corr_id]++ and _kernel_names.find / emplace / at
SyAccess(w) ==
    /\ sy_script[w] # <<>>
    /\ Head(sy_script[w]).op = "access"
    /\ sy_users' = [sy_users EXCEPT ![Head(sy_script[w]).on] = @ \cup {w}]
    /\ sy_script' = [sy_script EXCEPT ![w] = Tail(@)]
    /\ UNCHANGED <<sy_held, sy_calls, sy_recs>>
    /\ SyUnchanged

SyncInit == HipIdle /\ PyIdle /\ LifeStart /\ command_line = <<>>

SyncNext ==
    \/ \E t \in HostThreads, named \in BOOLEAN : SyHipEnter(t, named)
    \/ \E t \in HostThreads : SyHipExit(t)
    \/ \E w \in SyncWorkers, tid \in HostThreads, found \in BOOLEAN :
          SyActivity(w, tid, found)
    \/ \E t \in SyncThreads : SyAcquire(t)
    \/ \E t \in SyncThreads : SyRelease(t)
    \/ \E w \in SyncWorkers : SyAccess(w)

SyncSpec == SyncInit /\ [][SyncNext]_vars

\* thread t waits for a mutex
Waits(t) ==
    /\ sy_script[t] # <<>>
    /\ Head(sy_script[t]).op = "acquire"
    /\ ~Free(Head(sy_script[t]).on)

\* C24: a thread acquires one of the tracer's mutexes only while it holds none,
\* so it never holds two, and the threads inside the callbacks never all wait
C24_OneMutexAtATime ==
    /\ [](\A t \in SyncThreads : Cardinality(sy_held[t]) <= 1)
    /\ []((\E t \in SyncThreads : sy_script[t] # <<>>) =>
            \E t \in SyncThreads : sy_script[t] # <<>> /\ ~Waits(t))
    /\ [][\A t \in SyncThreads :
            ~(sy_held'[t] \subseteq sy_held[t]) => sy_held[t] = {}]_vars

\* an application thread drains its queue while a worker waits to append to it
\* and the other worker holds the key mutex
C24_Witness ==
    \E t \in HostThreads, w1, w2 \in SyncWorkers :
        /\ w1 # w2
        /\ sy_held[t] = {QueueMutex(t)}
        /\ Waits(w1) /\ Head(sy_script[w1]).on = QueueMutex(t)
        /\ sy_held[w2] = {KeyMutex}

\* thread t is about to access the static o and holds no mutex
AboutToAccess(t, o) ==
    /\ sy_script[t] # <<>>
    /\ Head(sy_script[t]) = Access(o)
    /\ sy_held[t] = {}

\* C30: the kernel-name cache and the per-correlation-id counter belong to one
\* worker: no object is accessed by two workers, and two workers are never
\* about to access the same object at the same time without a lock
C30_StaticsArePerWorker ==
    /\ \A o \in Statics : Cardinality(sy_users[o]) <= 1
    /\ \A o \in Statics : \A w1, w2 \in SyncWorkers :
          (AboutToAccess(w1, o) /\ AboutToAccess(w2, o)) => w1 = w2

(* ------------------- the activity callback, continued ----------------- *)
\* the records of the delivered buffers that the workers have not finished
RECURSIVE Unvisited(_)
Unvisited(S) ==
    IF S = {} THEN 0
    ELSE LET w == CHOOSE x \in S : TRUE
         IN  wleft[w] - (IF wpc[w] = "append" THEN 1 ELSE 0) + Unvisited(S \ {w})

\* a step in which a worker skips a record
SkipStep ==
    /\ nrec' = nrec + 1
    /\ Last(records_seen').skipped

C22_ExitReturnsNormally == raised = {}

====
